---- MODULE Spec2Model ----
(***************************************************************************)
(* Fitment resolution: the Qdrant retriever (qdrant_retriever.py), the     *)
(* ChromaDB retriever (chroma_retriever.py) and the two caller-facing      *)
(* tools (fitments_tools.py).                                              *)
(*                                                                         *)
(* Text is a sequence of one-character strings, so that lower(), strip(),  *)
(* the year regex, re.split and the substring tests are computed character *)
(* by character.  Scores are exact rationals [n, d]; for the values the    *)
(* model enumerates IEEE double arithmetic gives the same answers at the   *)
(* 0.3 threshold and at the bounds 0 and 1.                                *)
(***************************************************************************)
EXTENDS Integers, Sequences, FiniteSets, TLC

VARIABLES
    index,              \* points held by the vector index (chrome_fitments)
    store,              \* rows of the relational table chrome_fitments, in store order
    supabase,           \* self.supabase is configured
    pc,                 \* position of the request in flight
    req,                \* [op, query, top_k] of the request in flight
    search_terms,       \* _extract_search_terms(query)
    points,             \* results.points of the vector query
    verdicts,           \* _validate_vehicle_match of each point, in order
    validated_results,  \* the list built by search_battery_for_vehicle
    ret,                \* the list a retriever returned to its caller
    reply,              \* what a tool returned to its caller
    raised,             \* an exception left the operation
    calls               \* remote calls issued by the request, in order

vars == <<index, store, supabase, pc, req, search_terms, points, verdicts,
          validated_results, ret, reply, raised, calls>>

\* Python's None where a text is expected: no text equals it
NoneVal == <<"None">>
\* a key the dictionary does not have, where a string tag is expected
Absent == "absent"

(***************************************************************************)
(* Text                                                                    *)
(***************************************************************************)
Str(s) == [i \in 1..Len(s) |-> SubSeq(s, i, i)]

LowerLetters == Str("abcdefghijklmnopqrstuvwxyz")
UpperLetters == Str("ABCDEFGHIJKLMNOPQRSTUVWXYZ")
Digits == {"0", "1", "2", "3", "4", "5", "6", "7", "8", "9"}

Range(s) == {s[i] : i \in 1..Len(s)}

\* str.lower() / str.upper() on one character
LowerChar(c) ==
    IF \E i \in 1..Len(UpperLetters) : UpperLetters[i] = c
    THEN LowerLetters[CHOOSE i \in 1..Len(UpperLetters) : UpperLetters[i] = c]
    ELSE c
UpperChar(c) ==
    IF \E i \in 1..Len(LowerLetters) : LowerLetters[i] = c
    THEN UpperLetters[CHOOSE i \in 1..Len(LowerLetters) : LowerLetters[i] = c]
    ELSE c
Lower(s) == [i \in 1..Len(s) |-> LowerChar(s[i])]
Upper(s) == [i \in 1..Len(s) |-> UpperChar(s[i])]

IsSpace(c) == c = " "
\* \w of the re module
IsWordChar(c) == c \in Digits \/ c \in Range(LowerLetters) \/ c \in Range(UpperLetters) \/ c = "_"

\* str.strip()
RECURSIVE LStrip(_)
LStrip(s) == IF s # <<>> /\ IsSpace(Head(s)) THEN LStrip(Tail(s)) ELSE s
RECURSIVE RStrip(_)
RStrip(s) ==
    IF s # <<>> /\ IsSpace(s[Len(s)]) THEN RStrip(SubSeq(s, 1, Len(s) - 1)) ELSE s
Strip(s) == RStrip(LStrip(s))

\* `sub in s` for str
Contains(s, sub) ==
    \E i \in 1..(Len(s) - Len(sub) + 1) : SubSeq(s, i, i + Len(sub) - 1) = sub

\* str.isdigit()
IsDigit(s) == s # <<>> /\ \A i \in 1..Len(s) : s[i] \in Digits

\* str.endswith(suffix)
EndsWith(s, suffix) ==
    Len(s) >= Len(suffix) /\ SubSeq(s, Len(s) - Len(suffix) + 1, Len(s)) = suffix

\* str.replace(old, new), left to right, non-overlapping; old is not empty
RECURSIVE Replace(_, _, _)
Replace(s, old, new) ==
    IF Len(s) < Len(old) THEN s
    ELSE IF SubSeq(s, 1, Len(old)) = old
         THEN new \o Replace(SubSeq(s, Len(old) + 1, Len(s)), old, new)
         ELSE <<Head(s)>> \o Replace(Tail(s), old, new)

\* the pieces of s between maximal runs of characters of seps, empty pieces
\* dropped
RECURSIVE SplitOn(_, _, _, _)
SplitOn(seps, s, cur, acc) ==
    IF s = <<>> THEN (IF cur = <<>> THEN acc ELSE Append(acc, cur))
    ELSE IF Head(s) \in seps
         THEN SplitOn(seps, Tail(s), <<>>, IF cur = <<>> THEN acc ELSE Append(acc, cur))
         ELSE SplitOn(seps, Tail(s), Append(cur, Head(s)), acc)

\* str.split() with no argument
SplitWhitespace(s) == SplitOn({" "}, s, <<>>, <<>>)

(***************************************************************************)
(* Rationals                                                               *)
(***************************************************************************)
RECURSIVE GCD(_, _)
GCD(a, b) == IF b = 0 THEN a ELSE GCD(b, a % b)
Abs(a) == IF a < 0 THEN -a ELSE a
Rat(n, d) ==
    LET g == GCD(Abs(n), d) IN [n |-> n \div g, d |-> d \div g]
RAdd(a, b) == Rat(a.n * b.d + b.n * a.d, a.d * b.d)
RMul(a, b) == Rat(a.n * b.n, a.d * b.d)
RLeq(a, b) == a.n * b.d <= b.n * a.d
RLt(a, b) == a.n * b.d < b.n * a.d
RMin(a, b) == IF RLeq(a, b) THEN a ELSE b
RMax(a, b) == IF RLeq(a, b) THEN b ELSE a
Zero == Rat(0, 1)
One == Rat(1, 1)
\* a score key the dictionary does not have
NoScore == [n |-> 0, d |-> 0]

(***************************************************************************)
(* QdrantFitmentsRetriever._extract_search_terms                           *)
(***************************************************************************)
YearAtNoBoundary(s, i) ==
    /\ i + 3 <= Len(s)
    /\ \/ s[i] = "1" /\ s[i + 1] = "9"
       \/ s[i] = "2" /\ s[i + 1] = "0"
    /\ s[i + 2] \in Digits
    /\ s[i + 3] \in Digits

\* r'\b(19\d{2}|20\d{2})\b' matches at position i of s
YearAt(s, i) ==
    /\ i + 3 <= Len(s)
    /\ \/ s[i] = "1" /\ s[i + 1] = "9"
       \/ s[i] = "2" /\ s[i + 1] = "0"
    /\ s[i + 2] \in Digits
    /\ s[i + 3] \in Digits
    /\ (i = 1 \/ ~IsWordChar(s[i - 1]))
    /\ (i + 4 > Len(s) \/ ~IsWordChar(s[i + 4]))

\* re.search(...).group(1), or None
YearSearch(s) ==
    IF \E i \in 1..Len(s) : YearAt(s, i)
    THEN LET i == CHOOSE j \in 1..Len(s) :
                      YearAt(s, j) /\ \A k \in 1..(j - 1) : ~YearAt(s, k)
         IN SubSeq(s, i, i + 3)
    ELSE NoneVal

\* re.sub(..., '', s): every match removed (matches cannot overlap)
RECURSIVE YearSubFrom(_, _)
YearSubFrom(s, i) ==
    IF i > Len(s) THEN <<>>
    ELSE IF YearAt(s, i) THEN YearSubFrom(s, i + 4)
         ELSE <<s[i]>> \o YearSubFrom(s, i + 1)
YearSub(s) == YearSubFrom(s, 1)

vehicle_types ==
    {Str("motorcycle"), Str("atv"), Str("scooter"), Str("snowmobile"), Str("utv"),
     Str("pwc"), Str("jet ski"), Str("side-by-side"), Str("dirt bike"), Str("bike")}

known_makes ==
    {Str("honda"), Str("yamaha"), Str("kawasaki"), Str("suzuki"), Str("bmw"),
     Str("ducati"), Str("ktm"), Str("harley"), Str("triumph"), Str("aprilia"),
     Str("indian"), Str("victory"), Str("moto guzzi"), Str("arctic cat"),
     Str("polaris"), Str("can-am"), Str("sea-doo"), Str("ski-doo"),
     Str("bombardier"), Str("aeon"), Str("benzai"), Str("kymco"), Str("sym"),
     Str("piaggio"), Str("vespa"), Str("peugeot"), Str("husqvarna"), Str("beta"),
     Str("gas gas"), Str("sherco"), Str("tm"), Str("royal enfield"),
     Str("cfmoto"), Str("linhai"), Str("hisun"), Str("massimo"), Str("argo"),
     Str("textron")}

\* the character class [\s\-/,] of the tokenizer
TokenSeps == {" ", "-", "/", ","}

\* re.split(r'[\s\-/,]+', text) with the empty pieces filtered out
Tokenize(text) == SplitOn(TokenSeps, text, <<>>, <<>>)

\* [t for t in tokens if t not in vehicle_types]
SignificantTokens(tokens) == SelectSeq(tokens, LAMBDA t : t \notin vehicle_types)

CompoundMakeDroppingFirst(st) ==
    IF Len(st) >= 2 /\ (st[1] \o <<" ">> \o st[2]) \in known_makes
    THEN [make |-> st[1] \o <<" ">> \o st[2], model_terms |-> SubSeq(st, 3, Len(st))]
    ELSE [make |-> NoneVal, model_terms |-> Tail(st)]

\* the make / model_terms decision on the significant tokens
CompoundMake(st) ==
    IF Len(st) >= 2 /\ (st[1] \o <<" ">> \o st[2]) \in known_makes
    THEN [make |-> st[1] \o <<" ">> \o st[2], model_terms |-> SubSeq(st, 3, Len(st))]
    ELSE [make |-> NoneVal, model_terms |-> st]
MakeAndModel(st) ==
    IF st = <<>> THEN [make |-> NoneVal, model_terms |-> st]
    ELSE IF st[1] \in known_makes
         THEN [make |-> st[1], model_terms |-> Tail(st)]
         ELSE CompoundMake(st)

_extract_search_terms(query) ==
    LET normalized == Strip(Lower(query))
        year == YearSearch(normalized)
        query_without_year == Strip(YearSub(normalized))
        significant_tokens == SignificantTokens(Tokenize(query_without_year))
        mm == MakeAndModel(significant_tokens)
    IN [year |-> year,
        make |-> mm.make,
        model_terms |-> mm.model_terms,
        all_terms |-> significant_tokens,
        original_query |-> query]


(***************************************************************************)
(* QdrantFitmentsRetriever._validate_vehicle_match                         *)
(***************************************************************************)
\* (value or ''): a null payload field reads as the empty text
OrEmpty(v) == IF v = NoneVal THEN <<>> ELSE v

\* result_model.replace('/', ' ').replace('-', ' ')
NormalizeModel(result_model) ==
    Replace(Replace(result_model, <<"/">>, <<" ">>), <<"-">>, <<" ">>)

\* set(result_model_normalized.split())
ModelTokens(result_model_normalized) ==
    Range(SplitWhitespace(result_model_normalized))

TermCreditSubstringForNumerics(term, tokens, normalized) ==
    IF term \in tokens THEN Rat(1, 1)
    ELSE IF Contains(normalized, term) THEN Rat(1, 1)
    ELSE IF \E token \in tokens : Contains(token, term) \/ Contains(term, token)
         THEN Rat(1, 2)
         ELSE Zero

\* what one model term adds to model_matches
TermCredit(term, tokens, normalized) ==
    IF IsDigit(term)
    THEN (IF term \in tokens THEN Rat(1, 1) ELSE Zero)
    ELSE IF term \in tokens THEN Rat(1, 1)
    ELSE IF Contains(normalized, term) THEN Rat(1, 1)
    ELSE IF \E token \in tokens : Contains(token, term) \/ Contains(term, token)
         THEN Rat(1, 2)
         ELSE Zero

RECURSIVE ModelMatches(_, _, _)
ModelMatches(model_terms, tokens, normalized) ==
    IF model_terms = <<>> THEN Zero
    ELSE RAdd(TermCredit(Head(model_terms), tokens, normalized),
              ModelMatches(Tail(model_terms), tokens, normalized))

\* 1. model term matching, weight 0.6
ModelPart(model_terms, result_model_normalized) ==
    IF model_terms = <<>> THEN Zero
    ELSE LET tokens == ModelTokens(result_model_normalized)
             model_matches == ModelMatches(model_terms, tokens, result_model_normalized)
             model_score == RMin(RMul(model_matches, Rat(1, Len(model_terms))), One)
         IN RMul(model_score, Rat(6, 10))

MakePartWithoutPartial(query_make, result_make) ==
    IF query_make = NoneVal \/ query_make = <<>> THEN Zero
    ELSE IF Contains(result_make, query_make) \/ Contains(query_make, result_make)
         THEN Rat(25, 100)
         ELSE Zero

\* 2. make matching, weight 0.25
MakePart(query_make, result_make) ==
    IF query_make = NoneVal \/ query_make = <<>> THEN Zero
    ELSE IF Contains(result_make, query_make) \/ Contains(query_make, result_make)
         THEN Rat(25, 100)
         ELSE IF Contains(result_make, SplitWhitespace(query_make)[1])
              THEN Rat(15, 100)
              ELSE Zero

\* 3. year matching, weight 0.15
YearPart(query_year, result_year) ==
    IF query_year # NoneVal /\ query_year # <<>> /\ query_year = result_year
    THEN Rat(15, 100)
    ELSE Zero

\* 4. all-terms fallback matching
AllTermsPart(terms, result_model_normalized, result_make) ==
    IF terms.model_terms = <<>> /\ (terms.make = NoneVal \/ terms.make = <<>>)
       /\ terms.all_terms # <<>>
    THEN LET term_matches ==
                 Cardinality({i \in 1..Len(terms.all_terms) :
                     \/ Contains(result_model_normalized, terms.all_terms[i])
                     \/ Contains(result_make, terms.all_terms[i])})
             fallback_score == RMin(Rat(term_matches, Len(terms.all_terms)), One)
         IN RMul(fallback_score, Rat(5, 10))
    ELSE Zero

IsValidStrict(score) == RLt(Rat(3, 10), score)

\* the validity threshold
IsValid(score) == RLeq(Rat(3, 10), score)

_validate_vehicle_match(result, terms) ==
    LET result_make == Lower(OrEmpty(result.make))
        result_model == Lower(OrEmpty(result.model))
        result_year == OrEmpty(result.year)
        result_model_normalized == NormalizeModel(result_model)
        weighted == RAdd(ModelPart(terms.model_terms, result_model_normalized),
                         RAdd(MakePart(terms.make, result_make),
                              YearPart(terms.year, result_year)))
        score == RMax(weighted, AllTermsPart(terms, result_model_normalized, result_make))
    IN [is_valid |-> IsValid(score), score |-> score]


(***************************************************************************)
(* The catalog: the vector index and the relational table.  A payload or   *)
(* row field that is null is NoneVal.  The fields document, yuasa_model,   *)
(* vehicle_type and cc are carried through by the code and never read.     *)
(***************************************************************************)
Point(id, type, make, model, year, chrome_model, chrome_sku) ==
    [id |-> id, type |-> type, make |-> make, model |-> model, year |-> year,
     chrome_model |-> chrome_model, chrome_sku |-> chrome_sku]

V1 == Point(1, "vehicle_to_battery", Str("Honda"), Str("CBR600RR"), Str("2020"),
            Str("YTZ7S"), Str("CB-YTZ7S"))
V2 == Point(2, "vehicle_to_battery", Str("Honda"), Str("Gold Wing GL1000"), Str("1980"),
            Str("YTX14-BS"), Str("CB-YTX14"))
V3 == Point(3, "vehicle_to_battery", Str("Aeon (Benzai)"), Str("Cobra/CX-Sport 100"),
            Str("2008"), Str("YTX4L-BS"), Str("CB-YTX4L"))
V4 == Point(7, "vehicle_to_battery", Str("Honda"), Str("CBR600F"), Str("2021"),
            Str("ytz7s-bs"), Str("CB-YTZ7S"))
V5 == Point(9, "vehicle_to_battery", Str("Arctic (Textron)"), Str("Wildcat 1000"),
            Str("2018"), Str("YTX20HL-BS"), Str("CB-YTX20HL"))
B1 == Point(4, "battery_to_vehicle", Str("Honda"), Str("CBR600RR"), Str("2020"),
            Str("YTZ7S-BS"), Str("CB-YTZ7S"))
B2 == Point(5, "battery_to_vehicle", Str("Yamaha"), Str("YZF-R6"), Str("2019"),
            Str("ytx14"), Str("CB-YTX14"))
B3 == Point(6, "battery_to_vehicle", Str("Suzuki"), Str("GSX-R750"), Str("2015"),
            NoneVal, NoneVal)
B4 == Point(8, "battery_to_vehicle", Str("Kawasaki"), Str("Ninja 650"), Str("2018"),
            Str("YTX14L-BS"), Str("CB-YTX14L"))

Catalogs == {{V1, V2, B1}, {V2, V3, B1, B2}, {V1, V3, B2, B3}, {V1, V4, B1, B4},
             {V2, V5, B1}}

Row(id, make, model, year, chrome_model, chrome_sku) ==
    [id |-> id, make |-> make, model |-> model, year |-> year,
     chrome_model |-> chrome_model, chrome_sku |-> chrome_sku]

R1 == Row(11, Str("Aeon"), Str("Cobra/CX-Sport 100"), Str("2008"),
          Str("YTX4L-BS"), Str("CB-YTX4L"))
R2 == Row(12, Str("Honda"), Str("Sport 90"), Str("2020"), Str("YB2.5L"), Str("CB-YB25L"))
R3 == Row(13, Str("Honda"), Str("CBR600F"), Str("2020"), Str("YTZ7S"), Str("CB-YTZ7S"))
R4 == Row(14, Str("Honda"), Str("CBR600RR"), Str("2020"), Str("YTZ7S-BS"), Str("CB-YTZ7S"))

\* rows whose battery identifier is null or empty
R5 == Row(15, Str("Honda"), Str("CBR600RR"), Str("2020"), NoneVal, NoneVal)
R6 == Row(16, Str("Honda"), Str("CBR600F"), Str("2020"), Str(""), Str(""))
R7 == Row(17, Str("Honda"), Str("CBR600"), Str("2020"), NoneVal, NoneVal)

Stores == {<<>>, <<R1>>, <<R2, R3>>, <<R3, R1, R2>>, <<R3, R4>>, <<R5, R6, R7, R4>>}

\* similarity scores the index reports, in hundredths
SemanticScores == {-50, 20, 100}

VehicleQueries ==
    {Str("2020 Honda CBR600"), Str("CX-Sport 100"), Str("2020 honda"),
     Str("cbr600 zz"), Str(""), Str("x"), Str("Arctic Cat 2018"), Str("2020 atv"),
     Str("honda")}
BatteryQueries ==
    {Str("YTZ7S"), Str("ytx14-bs"), Str("YTZ-7S"), Str(""), Str("YTX-14-BS")}

MaxK == 2
TopKs == 1..MaxK

Max(a, b) == IF a >= b THEN a ELSE b
Min(a, b) == IF a <= b THEN a ELSE b
Take(s, n) == SubSeq(s, 1, Min(n, Len(s)))

(***************************************************************************)
(* The vector index (Qdrant query_points, Chroma collection.query): the    *)
(* `limit` nearest points whose type matches, nearest first.  Which points *)
(* are nearest, and how near, is the index's own business: any order and   *)
(* any non-increasing scores.                                              *)
(***************************************************************************)
IndexAnswers(type, limit) ==
    LET matching == {p \in index : p.type = type}
        n == Min(limit, Cardinality(matching))
    IN {[i \in 1..n |-> [payload |-> f[i], score |-> Rat(sc[i], 100)]] :
            <<f, sc>> \in {fs \in [1..n -> matching] \X [1..n -> SemanticScores] :
                /\ \A i, j \in 1..n : i # j => fs[1][i] # fs[1][j]
                /\ \A i \in 1..(n - 1) : fs[2][i] >= fs[2][i + 1]}}

(***************************************************************************)
(* QdrantFitmentsRetriever._supabase_fallback_search                       *)
(***************************************************************************)
\* column ILIKE '%term%'
Ilike(value, term) == Contains(Lower(OrEmpty(value)), Lower(term))

\* search_list = model_terms if model_terms else all_terms
FallbackSearchList(terms) ==
    IF terms.model_terms # <<>> THEN terms.model_terms ELSE terms.all_terms

FallbackConditionsKeepingShort(terms) == FallbackSearchList(terms)

\* the terms of the search list that are not skipped as very short
FallbackConditions(terms) ==
    SelectSeq(FallbackSearchList(terms), LAMBDA t : Len(t) >= 2)

\* one filter of the query builder: .ilike(column, '%value%') or .eq(column, value)
Condition(op, column, value) == [op |-> op, column |-> column, value |-> value]

\* the filters chained on the query builder, in the order they are added
FallbackQuery(terms) ==
    [i \in 1..Len(FallbackConditions(terms)) |->
         Condition("ilike", "model", FallbackConditions(terms)[i])]
    \o (IF terms.make # NoneVal /\ terms.make # <<>>
        THEN <<Condition("ilike", "make", terms.make)>> ELSE <<>>)
    \o (IF terms.year # NoneVal /\ terms.year # <<>>
        THEN <<Condition("eq", "year", terms.year)>> ELSE <<>>)

ColumnOf(row, column) ==
    CASE column = "model" -> row.model
      [] column = "make" -> row.make
      [] column = "year" -> row.year

\* what the store does with one filter: a null column satisfies neither kind
ConditionHolds(row, cond) ==
    IF cond.op = "ilike" THEN Ilike(ColumnOf(row, cond.column), cond.value)
    ELSE OrEmpty(ColumnOf(row, cond.column)) = cond.value

\* filters chained on one query builder are all applied to a row
RowMatches(row, terms) ==
    \A i \in 1..Len(FallbackQuery(terms)) : ConditionHolds(row, FallbackQuery(terms)[i])

FALLBACK_LIMIT_FACTOR == 3

StoreExecuteUncapped(terms, top_k) ==
    SelectSeq(store, LAMBDA row : RowMatches(row, terms))

\* query.limit(top_k * 3).execute().data
StoreExecute(terms, top_k) ==
    Take(SelectSeq(store, LAMBDA row : RowMatches(row, terms)),
         top_k * FALLBACK_LIMIT_FACTOR)

FallbackEntry(row) ==
    [id |-> row.id, chrome_model |-> row.chrome_model, chrome_sku |-> row.chrome_sku,
     make |-> row.make, model |-> row.model, year |-> row.year,
     semantic_score |-> NoScore, match_score |-> NoScore,
     score |-> Rat(8, 10), source |-> "supabase_fallback"]

\* the formatting loop over result.data
RECURSIVE FallbackFormat(_, _, _, _)
FallbackFormat(rows, top_k, seen_batteries, formatted) ==
    IF rows = <<>> THEN formatted
    ELSE LET row == Head(rows)
             chrome_model == row.chrome_model
             fresh == chrome_model # NoneVal /\ chrome_model # <<>>
                      /\ chrome_model \notin seen_batteries
             formatted2 == IF fresh THEN Append(formatted, FallbackEntry(row))
                           ELSE formatted
         IN IF Len(formatted2) >= top_k THEN formatted2
            ELSE FallbackFormat(Tail(rows), top_k,
                                IF fresh THEN seen_batteries \cup {chrome_model}
                                ELSE seen_batteries,
                                formatted2)

FallbackTrustingStore(terms, top_k, ok) ==
    IF FallbackSearchList(terms) = <<>> THEN <<>>
    ELSE FallbackFormat(StoreExecute(terms, top_k), top_k, {}, <<>>)

\* the value returned when the store call succeeds (ok) or raises
_supabase_fallback_search(terms, top_k, ok) ==
    IF ~supabase THEN <<>>
    ELSE IF FallbackSearchList(terms) = <<>> THEN <<>>
    ELSE IF ~ok THEN <<>>
    ELSE FallbackFormat(StoreExecute(terms, top_k), top_k, {}, <<>>)

\* whether the resolver reaches query.execute()
FallbackCallsStore(terms) == supabase /\ FallbackSearchList(terms) # <<>>


(***************************************************************************)
(* QdrantFitmentsRetriever.search_battery_for_vehicle                      *)
(***************************************************************************)
BFV_FETCH_MIN == 50
BFV_FETCH_FACTOR == 10

\* what an `except Exception` clause of a retriever does with the exception
Reraise == [ret |-> <<>>, raised |-> TRUE]
ReturnEmptyList == [ret |-> <<>>, raised |-> FALSE]

CombinedScoreUnweighted(semantic_score, match_score) ==
    RAdd(semantic_score, match_score)

\* (point.score * 0.4) + (match_score * 0.6)
CombinedScore(semantic_score, match_score) ==
    RAdd(RMul(semantic_score, Rat(4, 10)), RMul(match_score, Rat(6, 10)))

ResultDict(point, match_score) ==
    [id |-> point.payload.id,
     chrome_model |-> point.payload.chrome_model,
     chrome_sku |-> point.payload.chrome_sku,
     make |-> point.payload.make, model |-> point.payload.model,
     year |-> point.payload.year,
     semantic_score |-> point.score, match_score |-> match_score,
     score |-> CombinedScore(point.score, match_score), source |-> Absent]

\* _validate_vehicle_match of every fetched point, in fetch order
Verdicts(pts, terms) ==
    [i \in 1..Len(pts) |-> _validate_vehicle_match(pts[i].payload, terms)]

\* the candidates the validation loop keeps
KeepAll(pts, terms) ==
    [i \in 1..Len(pts) |-> ResultDict(pts[i], Verdicts(pts, terms)[i].score)]
RECURSIVE KeepValid(_, _)
KeepValid(pts, terms) ==
    IF pts = <<>> THEN <<>>
    ELSE LET v == _validate_vehicle_match(Head(pts).payload, terms)
         IN (IF v.is_valid THEN <<ResultDict(Head(pts), v.score)>> ELSE <<>>)
            \o KeepValid(Tail(pts), terms)

\* list.sort(key=lambda x: x["score"], reverse=True): stable, highest first
RECURSIVE InsertByScore(_, _)
InsertByScore(sorted, x) ==
    IF sorted = <<>> THEN <<x>>
    ELSE IF RLt(Head(sorted).score, x.score) THEN <<x>> \o sorted
         ELSE <<Head(sorted)>> \o InsertByScore(Tail(sorted), x)
RECURSIVE SortByScore(_)
SortByScore(xs) ==
    IF xs = <<>> THEN <<>>
    ELSE InsertByScore(SortByScore(SubSeq(xs, 1, Len(xs) - 1)), xs[Len(xs)])

ValidatedResultsTruncatedFirst(pts, terms, top_k) ==
    SortByScore(Take(KeepValid(pts, terms), top_k))

\* lines 399-429: validate, sort, truncate
ValidatedResults(pts, terms, top_k) == Take(SortByScore(KeepValid(pts, terms)), top_k)

RemoteCall(name, ok) == [call |-> name, ok |-> ok]

NoRequest == [op |-> "none", query |-> <<>>, top_k |-> 0]
NoTerms ==
    [year |-> NoneVal, make |-> NoneVal, model_terms |-> <<>>, all_terms |-> <<>>,
     original_query |-> <<>>]
NoReply == [kind |-> "none", shown |-> <<>>, recommended |-> <<>>, more |-> 0]

\* no request in flight
Idle ==
    /\ pc' = "idle"
    /\ req' = NoRequest
    /\ search_terms' = NoTerms
    /\ points' = <<>>
    /\ verdicts' = <<>>
    /\ validated_results' = <<>>
    /\ ret' = <<>>
    /\ reply' = NoReply
    /\ raised' = FALSE
    /\ calls' = <<>>

\* the call arrives; search_terms = self._extract_search_terms(query)
BfvStart ==
    /\ pc = "idle"
    /\ \E q \in VehicleQueries, k \in TopKs :
        /\ req' = [op |-> "search_battery_for_vehicle", query |-> q, top_k |-> k]
        /\ search_terms' = _extract_search_terms(q)
    /\ pc' = "bfv_embed"
    /\ UNCHANGED <<index, store, supabase, reply, points, verdicts, validated_results,
                   ret, raised, calls>>

\* query_vector = self._embed_query(query)
BfvEmbed ==
    /\ pc = "bfv_embed"
    /\ \E ok \in BOOLEAN :
        /\ calls' = Append(calls, RemoteCall("embed", ok))
        /\ IF ok
           THEN pc' = "bfv_query" /\ UNCHANGED <<ret, raised>>
           ELSE /\ pc' = "done"
                /\ ret' = ReturnEmptyList.ret
                /\ raised' = ReturnEmptyList.raised
    /\ UNCHANGED <<index, store, supabase, reply, req, search_terms, points, verdicts,
                   validated_results>>

BfvQueryRetrying ==
    /\ pc = "bfv_query"
    /\ \E ok \in BOOLEAN :
        /\ calls' = Append(calls, RemoteCall("vector_query", ok))
        /\ IF ok
           THEN \E answer \in IndexAnswers("vehicle_to_battery",
                                  Max(BFV_FETCH_MIN, req.top_k * BFV_FETCH_FACTOR)) :
                    /\ points' = answer
                    /\ verdicts' = Verdicts(answer, search_terms)
                    /\ validated_results' =
                           ValidatedResults(answer, search_terms, req.top_k)
                    /\ pc' = "bfv_ranked"
                    /\ UNCHANGED <<ret, raised>>
           ELSE /\ pc' = IF Len(calls) < 2 THEN "bfv_query" ELSE "done"
                /\ ret' = ReturnEmptyList.ret
                /\ raised' = ReturnEmptyList.raised
                /\ UNCHANGED <<points, verdicts, validated_results>>
    /\ UNCHANGED <<index, store, supabase, reply, req, search_terms>>

\* results = self.qdrant_client.query_points(...), then the validation loop,
\* the sort and the truncation
BfvQuery ==
    /\ pc = "bfv_query"
    /\ \E ok \in BOOLEAN :
        /\ calls' = Append(calls, RemoteCall("vector_query", ok))
        /\ IF ok
           THEN \E answer \in IndexAnswers("vehicle_to_battery",
                                  Max(BFV_FETCH_MIN, req.top_k * BFV_FETCH_FACTOR)) :
                    /\ points' = answer
                    /\ verdicts' = Verdicts(answer, search_terms)
                    /\ validated_results' =
                           ValidatedResults(answer, search_terms, req.top_k)
                    /\ pc' = "bfv_ranked"
                    /\ UNCHANGED <<ret, raised>>
           ELSE /\ pc' = "done"
                /\ ret' = ReturnEmptyList.ret
                /\ raised' = ReturnEmptyList.raised
                /\ UNCHANGED <<points, verdicts, validated_results>>
    /\ UNCHANGED <<index, store, supabase, reply, req, search_terms>>

\* `if not validated_results:` is false: return validated_results
BfvReturn ==
    /\ pc = "bfv_ranked"
    /\ validated_results # <<>>
    /\ ret' = validated_results
    /\ pc' = "done"
    /\ UNCHANGED <<index, store, supabase, reply, req, search_terms, points, verdicts,
                   validated_results, raised, calls>>

BfvFallbackToppingUp ==
    /\ pc = "bfv_ranked"
    /\ Len(validated_results) < req.top_k
    /\ \E ok \in BOOLEAN :
        /\ (~FallbackCallsStore(search_terms) => ok)
        /\ calls' = IF FallbackCallsStore(search_terms)
                    THEN Append(calls, RemoteCall("store_query", ok))
                    ELSE calls
        /\ validated_results' =
               validated_results \o _supabase_fallback_search(search_terms, req.top_k, ok)
        /\ ret' = validated_results \o _supabase_fallback_search(search_terms, req.top_k, ok)
    /\ pc' = "done"
    /\ UNCHANGED <<index, store, supabase, reply, req, search_terms, points, verdicts, raised>>

BfvFallbackConsumingRows ==
    /\ pc = "bfv_ranked"
    /\ validated_results = <<>>
    /\ \E ok \in BOOLEAN :
        /\ (~FallbackCallsStore(search_terms) => ok)
        /\ calls' = IF FallbackCallsStore(search_terms)
                    THEN Append(calls, RemoteCall("store_query", ok))
                    ELSE calls
        /\ validated_results' = _supabase_fallback_search(search_terms, req.top_k, ok)
        /\ ret' = _supabase_fallback_search(search_terms, req.top_k, ok)
        /\ store' = IF FallbackCallsStore(search_terms) /\ ok
                    THEN SelectSeq(store, LAMBDA row : ~RowMatches(row, search_terms))
                    ELSE store
    /\ pc' = "done"
    /\ UNCHANGED <<index, supabase, reply, req, search_terms, points, verdicts, raised>>

\* `if not validated_results:` is true:
\* validated_results = self._supabase_fallback_search(search_terms, top_k)
BfvFallback ==
    /\ pc = "bfv_ranked"
    /\ validated_results = <<>>
    /\ \E ok \in BOOLEAN :
        /\ (~FallbackCallsStore(search_terms) => ok)
        /\ calls' = IF FallbackCallsStore(search_terms)
                    THEN Append(calls, RemoteCall("store_query", ok))
                    ELSE calls
        /\ validated_results' = _supabase_fallback_search(search_terms, req.top_k, ok)
        /\ ret' = _supabase_fallback_search(search_terms, req.top_k, ok)
    /\ pc' = "done"
    /\ UNCHANGED <<index, store, supabase, reply, req, search_terms, points, verdicts, raised>>


(***************************************************************************)
(* QdrantFitmentsRetriever.search_vehicles_for_battery                     *)
(***************************************************************************)
VFB_FETCH_FACTOR == 5

BS == Str("-BS")
Dash == <<"-">>

\* lines 471-479
ModelWithoutBs(battery_model) ==
    LET normalized == Strip(Upper(battery_model))
    IN IF EndsWith(normalized, BS) THEN Replace(normalized, BS, <<>>)
       ELSE Replace(normalized, Dash, <<>>)
ModelWithBs(battery_model) ==
    LET normalized == Strip(Upper(battery_model))
    IN IF EndsWith(normalized, BS) THEN normalized
       ELSE ModelWithoutBs(battery_model) \o BS

\* lines 505-509
SearchVariants(battery_model) ==
    {ModelWithoutBs(battery_model), ModelWithBs(battery_model),
     Replace(ModelWithoutBs(battery_model), Dash, <<>>)}

\* lines 513-526, for a payload whose chrome_model is a string
IsMatch(battery_model, stored) ==
    LET chrome_model == Upper(stored)
        stored_normalized == Replace(Replace(chrome_model, BS, <<>>), Dash, <<>>)
        model_without_bs == ModelWithoutBs(battery_model)
    IN \/ stored_normalized \in SearchVariants(battery_model)
       \/ chrome_model \in SearchVariants(battery_model)
       \/ model_without_bs = stored_normalized
       \/ Contains(stored_normalized, model_without_bs)
       \/ Contains(model_without_bs, stored_normalized)

VehicleEntry(point) ==
    [id |-> point.payload.id, make |-> point.payload.make,
     model |-> point.payload.model, year |-> point.payload.year,
     chrome_model |-> point.payload.chrome_model,
     chrome_sku |-> point.payload.chrome_sku,
     semantic_score |-> NoScore, match_score |-> NoScore,
     score |-> point.score, source |-> Absent]

\* the loop over results.points: the list built, and whether the loop raised
\* (payload.get("chrome_model", "") is null and .upper() fails)
RECURSIVE VfbLoop(_, _, _, _)
VfbLoop(pts, battery_model, top_k, formatted) ==
    IF pts = <<>> THEN [raises |-> FALSE, formatted |-> formatted]
    ELSE IF Head(pts).payload.chrome_model = NoneVal
         THEN [raises |-> TRUE, formatted |-> formatted]
    ELSE IF IsMatch(battery_model, Head(pts).payload.chrome_model)
         THEN LET formatted2 == Append(formatted, VehicleEntry(Head(pts)))
              IN IF Len(formatted2) >= top_k
                 THEN [raises |-> FALSE, formatted |-> formatted2]
                 ELSE VfbLoop(Tail(pts), battery_model, top_k, formatted2)
         ELSE VfbLoop(Tail(pts), battery_model, top_k, formatted)

VfbStart ==
    /\ pc = "idle"
    /\ \E q \in BatteryQueries, k \in TopKs :
        req' = [op |-> "search_vehicles_for_battery", query |-> q, top_k |-> k]
    /\ pc' = "vfb_embed"
    /\ UNCHANGED <<index, store, supabase, reply, search_terms, points, verdicts,
                   validated_results, ret, raised, calls>>

\* query_vector = self._embed_query(query)
VfbEmbed ==
    /\ pc = "vfb_embed"
    /\ \E ok \in BOOLEAN :
        /\ calls' = Append(calls, RemoteCall("embed", ok))
        /\ IF ok
           THEN pc' = "vfb_query" /\ UNCHANGED <<ret, raised>>
           ELSE /\ pc' = "done"
                /\ ret' = ReturnEmptyList.ret
                /\ raised' = ReturnEmptyList.raised
    /\ UNCHANGED <<index, store, supabase, reply, req, search_terms, points, verdicts,
                   validated_results>>

\* results = self.qdrant_client.query_points(...), the filtering loop, return
VfbQuery ==
    /\ pc = "vfb_query"
    /\ \E ok \in BOOLEAN :
        /\ calls' = Append(calls, RemoteCall("vector_query", ok))
        /\ IF ok
           THEN \E answer \in IndexAnswers("battery_to_vehicle",
                                           req.top_k * VFB_FETCH_FACTOR) :
                    LET loop == VfbLoop(answer, req.query, req.top_k, <<>>)
                    IN /\ points' = answer
                       /\ IF loop.raises
                          THEN /\ ret' = ReturnEmptyList.ret
                               /\ raised' = ReturnEmptyList.raised
                          ELSE ret' = loop.formatted /\ UNCHANGED raised
           ELSE /\ ret' = ReturnEmptyList.ret
                /\ raised' = ReturnEmptyList.raised
                /\ UNCHANGED points
    /\ pc' = "done"
    /\ UNCHANGED <<index, store, supabase, reply, req, search_terms, verdicts,
                   validated_results>>


(***************************************************************************)
(* ChromaFitmentsRetriever                                                 *)
(***************************************************************************)
\* metadata.get(key, ""): Chroma metadata holds no nulls, the key is missing
ChromaEntry(point) ==
    [id |-> point.payload.id, make |-> OrEmpty(point.payload.make),
     model |-> OrEmpty(point.payload.model), year |-> OrEmpty(point.payload.year),
     chrome_model |-> OrEmpty(point.payload.chrome_model),
     chrome_sku |-> OrEmpty(point.payload.chrome_sku),
     semantic_score |-> NoScore, match_score |-> NoScore,
     score |-> point.score, source |-> Absent]

\* ChromaFitmentsRetriever.search_battery_for_vehicle, the query having answered
ChromaBatteryResults(answer) == [i \in 1..Len(answer) |-> ChromaEntry(answer[i])]

\* ChromaFitmentsRetriever.search_vehicles_for_battery, the query having answered
ChromaVehicleResults(answer, battery_model) ==
    LET formatted == [i \in 1..Len(answer) |-> ChromaEntry(answer[i])]
    IN SelectSeq(formatted,
                 LAMBDA e : Upper(e.chrome_model) = Upper(battery_model))

(***************************************************************************)
(* fitments_tools: formatting                                              *)
(***************************************************************************)
BATTERY_DISPLAY_LIMIT == 5
PER_MAKE_LIMIT == 10
VEHICLE_TOTAL_LIMIT == 30
TOOL_BATTERY_TOP_K == 10
TOOL_VEHICLE_TOP_K == 50

\* a key is truthy: neither None nor ''
Truthy(text) == text # NoneVal /\ text # <<>>

RECURSIVE DedupBatteriesSeenLastOnly(_, _)
DedupBatteriesSeenLastOnly(results, seen_models) ==
    IF results = <<>> THEN <<>>
    ELSE LET r == Head(results)
             model == r.chrome_model
         IN IF Truthy(model) /\ model \notin seen_models
            THEN <<r>> \o DedupBatteriesSeenLastOnly(Tail(results), {model})
            ELSE DedupBatteriesSeenLastOnly(Tail(results), seen_models)

\* the deduplication loop by chrome_model: first entry of each truthy model
RECURSIVE DedupBatteries(_, _)
DedupBatteries(results, seen_models) ==
    IF results = <<>> THEN <<>>
    ELSE LET r == Head(results)
             model == r.chrome_model
         IN IF Truthy(model) /\ model \notin seen_models
            THEN <<r>> \o DedupBatteries(Tail(results), seen_models \cup {model})
            ELSE DedupBatteries(Tail(results), seen_models)
UniqueBatteries(results) == DedupBatteries(results, {})

FormatBatteryResultsRecommendingLast(results) ==
    LET unique_batteries == UniqueBatteries(results)
    IN IF results = <<>> \/ unique_batteries = <<>>
       THEN [kind |-> "no_batteries", shown |-> <<>>, recommended |-> <<>>, more |-> 0]
       ELSE [kind |-> "batteries",
             shown |-> Take(unique_batteries, BATTERY_DISPLAY_LIMIT),
             recommended |-> <<unique_batteries[Len(unique_batteries)]>>,
             more |-> 0]

\* shown: the entries listed; recommended: the entry of the "Recommended:" line
_format_battery_results(results) ==
    LET unique_batteries == UniqueBatteries(results)
    IN IF results = <<>> \/ unique_batteries = <<>>
       THEN [kind |-> "no_batteries", shown |-> <<>>, recommended |-> <<>>, more |-> 0]
       ELSE [kind |-> "batteries",
             shown |-> Take(unique_batteries, BATTERY_DISPLAY_LIMIT),
             recommended |-> <<unique_batteries[1]>>,
             more |-> 0]

\* code point order of the characters texts are made of
CharOrder == Str(" (),-./0123456789ABCDEFGHIJKLMNOPQRSTUVWXYZ_abcdefghijklmnopqrstuvwxyz")
Ord(c) == CHOOSE i \in 1..Len(CharOrder) : CharOrder[i] = c
RECURSIVE TextLess(_, _)
TextLess(a, b) ==
    IF b = <<>> THEN FALSE
    ELSE IF a = <<>> THEN TRUE
    ELSE IF Head(a) = Head(b) THEN TextLess(Tail(a), Tail(b))
    ELSE Ord(Head(a)) < Ord(Head(b))

\* sorted(keys)
RECURSIVE SortedTexts(_)
SortedTexts(S) ==
    IF S = {} THEN <<>>
    ELSE LET least == CHOOSE a \in S : \A b \in S \ {a} : TextLess(a, b)
         IN <<least>> \o SortedTexts(S \ {least})

\* the deduplication loop by (make, model, year): first entry of each key
VehicleKey(r) == <<r.make, r.model, r.year>>
RECURSIVE DedupVehicles(_, _)
DedupVehicles(results, seen_vehicles) ==
    IF results = <<>> THEN <<>>
    ELSE LET r == Head(results)
         IN IF VehicleKey(r) \notin seen_vehicles
            THEN <<r>> \o DedupVehicles(Tail(results), seen_vehicles \cup {VehicleKey(r)})
            ELSE DedupVehicles(Tail(results), seen_vehicles)
UniqueVehicles(results) == DedupVehicles(results, {})

\* the lines written for the makes in `makes`, in order
RECURSIVE VehicleLines(_, _)
VehicleLines(makes, unique_vehicles) ==
    IF makes = <<>> THEN <<>>
    ELSE LET of_make == SelectSeq(unique_vehicles, LAMBDA v : v.make = Head(makes))
         IN SelectSeq(Take(of_make, PER_MAKE_LIMIT), LAMBDA v : Truthy(v.model))
            \o VehicleLines(Tail(makes), unique_vehicles)

_format_vehicle_results(results, battery_model) ==
    LET unique_vehicles == UniqueVehicles(results)
        total == Len(unique_vehicles)
    IN IF results = <<>>
       THEN [kind |-> "no_vehicles", shown |-> <<>>, recommended |-> <<>>, more |-> 0]
       ELSE [kind |-> "vehicles",
             shown |-> VehicleLines(SortedTexts({v.make : v \in Range(unique_vehicles)}),
                                    unique_vehicles),
             recommended |-> <<>>,
             more |-> IF total > VEHICLE_TOTAL_LIMIT
                      THEN total - VEHICLE_TOTAL_LIMIT ELSE 0]

\* the `except Exception` clause of a tool: the apology text
ToolError == [kind |-> "error", shown |-> <<>>, recommended |-> <<>>, more |-> 0]

(***************************************************************************)
(* fitments_tools.find_battery_for_vehicle                                 *)
(***************************************************************************)
FindBatteryStart ==
    /\ pc = "idle"
    /\ \E q \in VehicleQueries :
        req' = [op |-> "find_battery_for_vehicle", query |-> q,
                top_k |-> TOOL_BATTERY_TOP_K]
    /\ pc' = "fb_connect"
    /\ UNCHANGED <<index, store, supabase, search_terms, points, verdicts,
                   validated_results, ret, reply, raised, calls>>

\* retriever = ChromaFitmentsRetriever()
FindBatteryConnect ==
    /\ pc = "fb_connect"
    /\ \E ok \in BOOLEAN :
        /\ calls' = Append(calls, RemoteCall("chroma_connect", ok))
        /\ IF ok THEN pc' = "fb_query" /\ UNCHANGED reply
           ELSE pc' = "done" /\ reply' = ToolError
    /\ UNCHANGED <<index, store, supabase, req, search_terms, points, verdicts,
                   validated_results, ret, raised>>

\* results = retriever.search_battery_for_vehicle(query=vehicle_query, top_k=10)
\* formatted = _format_battery_results(results)
FindBatteryQuery ==
    /\ pc = "fb_query"
    /\ \E ok \in BOOLEAN :
        /\ calls' = Append(calls, RemoteCall("chroma_query", ok))
        /\ IF ok
           THEN \E answer \in IndexAnswers("vehicle_to_battery", req.top_k) :
                    /\ points' = answer
                    /\ ret' = ChromaBatteryResults(answer)
                    /\ reply' = _format_battery_results(ChromaBatteryResults(answer))
           ELSE /\ ret' = ReturnEmptyList.ret
                /\ reply' = _format_battery_results(ReturnEmptyList.ret)
                /\ UNCHANGED points
    /\ pc' = "done"
    /\ UNCHANGED <<index, store, supabase, req, search_terms, verdicts,
                   validated_results, raised>>

(***************************************************************************)
(* fitments_tools.find_vehicles_for_battery                                *)
(***************************************************************************)
FindVehiclesStart ==
    /\ pc = "idle"
    /\ \E q \in BatteryQueries :
        req' = [op |-> "find_vehicles_for_battery", query |-> q,
                top_k |-> TOOL_VEHICLE_TOP_K]
    /\ pc' = "fv_connect"
    /\ UNCHANGED <<index, store, supabase, search_terms, points, verdicts,
                   validated_results, ret, reply, raised, calls>>

\* retriever = ChromaFitmentsRetriever()
FindVehiclesConnect ==
    /\ pc = "fv_connect"
    /\ \E ok \in BOOLEAN :
        /\ calls' = Append(calls, RemoteCall("chroma_connect", ok))
        /\ IF ok THEN pc' = "fv_query" /\ UNCHANGED reply
           ELSE pc' = "done" /\ reply' = ToolError
    /\ UNCHANGED <<index, store, supabase, req, search_terms, points, verdicts,
                   validated_results, ret, raised>>

\* results = retriever.search_vehicles_for_battery(battery_model, top_k=50)
\* formatted = _format_vehicle_results(results, battery_model)
FindVehiclesQuery ==
    /\ pc = "fv_query"
    /\ \E ok \in BOOLEAN :
        /\ calls' = Append(calls, RemoteCall("chroma_query", ok))
        /\ IF ok
           THEN \E answer \in IndexAnswers("battery_to_vehicle", req.top_k) :
                    /\ points' = answer
                    /\ ret' = ChromaVehicleResults(answer, req.query)
                    /\ reply' = _format_vehicle_results(
                                    ChromaVehicleResults(answer, req.query), req.query)
           ELSE /\ ret' = ReturnEmptyList.ret
                /\ reply' = _format_vehicle_results(ReturnEmptyList.ret, req.query)
                /\ UNCHANGED points
    /\ pc' = "done"
    /\ UNCHANGED <<index, store, supabase, req, search_terms, verdicts,
                   validated_results, raised>>

(***************************************************************************)
(* The engine: requests one after another against one catalog              *)
(***************************************************************************)
\* the caller has its answer; the request's state is dropped
Finish ==
    /\ pc = "done"
    /\ Idle
    /\ UNCHANGED <<index, store, supabase>>

Init ==
    /\ index \in Catalogs
    /\ store \in Stores
    /\ supabase \in BOOLEAN
    /\ pc = "idle"
    /\ req = NoRequest
    /\ search_terms = NoTerms
    /\ points = <<>>
    /\ verdicts = <<>>
    /\ validated_results = <<>>
    /\ ret = <<>>
    /\ reply = NoReply
    /\ raised = FALSE
    /\ calls = <<>>

Next ==
    \/ BfvStart \/ BfvEmbed \/ BfvQuery \/ BfvReturn \/ BfvFallback
    \/ VfbStart \/ VfbEmbed \/ VfbQuery
    \/ FindBatteryStart \/ FindBatteryConnect \/ FindBatteryQuery
    \/ FindVehiclesStart \/ FindVehiclesConnect \/ FindVehiclesQuery
    \/ Finish

Spec == Init /\ [][Next]_vars


(***************************************************************************)
(* Properties of the engine                                                *)
(***************************************************************************)
RetrieverOps == {"search_battery_for_vehicle", "search_vehicles_for_battery"}
Failed(name) == \E i \in 1..Len(calls) : calls[i].call = name /\ ~calls[i].ok
SomeCallFailed == \E i \in 1..Len(calls) : ~calls[i].ok
Called(name) == \E i \in 1..Len(calls) : calls[i].call = name
InUnitInterval(score) == RLeq(Zero, score) /\ RLeq(score, One)

\* C1: whatever the query, the limit and the failures of the embedding client,
\* the vector index and the store, no exception leaves search_battery_for_vehicle
\* or search_vehicles_for_battery, and a request that has not returned yet can
\* always take its next step: it ends by returning a list.
C1_NoExceptionEscapes ==
    /\ ~raised
    /\ (pc \notin {"idle", "done"} => ENABLED Next)
    /\ (pc = "done" /\ req.op \in RetrieverOps /\ SomeCallFailed
            /\ ~Failed("store_query") => ret = <<>>)

\* a retriever request has returned the empty list after one of its remote calls
\* failed, or after a null battery identifier stopped the filtering loop
C1_Witness ==
    /\ pc = "done"
    /\ req.op \in RetrieverOps
    /\ ret = <<>>
    /\ \/ SomeCallFailed
       \/ /\ req.op = "search_vehicles_for_battery"
          /\ VfbLoop(points, req.query, req.top_k, <<>>).raises

\* C2: in the battery-for-vehicle direction a failed embedding call or a failed
\* vector-index query counts as zero candidates: the Fallback Resolver still
\* runs with the normalized query and K, and its hits are what is returned.
C2_OutageStillFallsBack ==
    (/\ pc = "done"
     /\ req.op = "search_battery_for_vehicle"
     /\ (Failed("embed") \/ Failed("vector_query")))
    => ret = _supabase_fallback_search(search_terms, req.top_k, TRUE)

\* C3: every match find_battery_for_vehicle presents is a Fallback Resolver hit
\* or a candidate the Validator accepts (score >= 0.3) for the normalized query.
C3_PresentedMatchesAreValidated ==
    (pc = "done" /\ req.op = "find_battery_for_vehicle")
    => \A i \in 1..Len(reply.shown) :
           \/ reply.shown[i].source = "supabase_fallback"
           \/ _validate_vehicle_match(reply.shown[i],
                                      _extract_search_terms(req.query)).is_valid

\* C4: find_vehicles_for_battery for X presents every candidate the index
\* yielded whose stored identifier is X with "-BS" appended, and for "X-BS"
\* every candidate stored as X, whatever the case of either side.
C4_SuffixInsensitiveLookup ==
    (pc = "done" /\ req.op = "find_vehicles_for_battery" /\ ~SomeCallFailed)
    => \A i \in 1..Len(points) :
           LET stored == points[i].payload.chrome_model
               asked == Upper(Strip(req.query))
           IN (/\ Truthy(stored)
               /\ Truthy(points[i].payload.model)
               /\ \/ Upper(stored) = asked \o BS
                  \/ asked = Upper(stored) \o BS)
              => \E j \in 1..Len(reply.shown) : reply.shown[j].id = points[i].payload.id

\* the candidates of the request in flight have been validated and ranked
Ranked == pc = "bfv_ranked"

\* C5 as stated: the validation_score of every fetched candidate and the
\* combined_score of every kept candidate lie in [0,1], whatever similarity
\* score the index reported.
C5_ScoresInUnitInterval ==
    Ranked =>
        /\ \A i \in 1..Len(verdicts) : InUnitInterval(verdicts[i].score)
        /\ \A i \in 1..Len(validated_results) :
               InUnitInterval(validated_results[i].score)

\* C5 amended: the validation_score of every fetched candidate lies in [0,1];
\* the combined_score of a kept candidate lies in [0,1] whenever the similarity
\* score the index reported for it lies in [0,1].
C5_ScoresInUnitIntervalGivenSimilarity ==
    Ranked =>
        /\ \A i \in 1..Len(verdicts) : InUnitInterval(verdicts[i].score)
        /\ \A i \in 1..Len(validated_results) :
               InUnitInterval(validated_results[i].semantic_score)
                   => InUnitInterval(validated_results[i].score)

\* a kept candidate with similarity 1.0 and validation_score 1.0
C5_Witness ==
    /\ Ranked
    /\ \E i \in 1..Len(validated_results) :
           /\ validated_results[i].semantic_score = One
           /\ validated_results[i].match_score = One
           /\ validated_results[i].score = One

\* C6 as stated: a fetched candidate is kept for ranking exactly when its
\* combined_score = semantic*0.4 + validation*0.6 is at least 0.3.
C6_ValidIffCombinedScore ==
    Ranked =>
        \A i \in 1..Len(points) :
            verdicts[i].is_valid
                <=> RLeq(Rat(3, 10), CombinedScore(points[i].score, verdicts[i].score))

\* the fetched candidates whose validation_score is at least 0.3
ValidIds ==
    {points[i].payload.id : i \in {j \in 1..Len(points) :
                                       RLeq(Rat(3, 10), verdicts[j].score)}}

\* C6 amended: a fetched candidate is treated as valid exactly when its
\* validation_score is at least 0.3: the ranked list holds only such candidates,
\* and holds all of them up to the limit K.
C6_ValidIffValidationScore ==
    Ranked =>
        /\ \A i \in 1..Len(points) :
               verdicts[i].is_valid <=> RLeq(Rat(3, 10), verdicts[i].score)
        /\ {validated_results[i].id : i \in 1..Len(validated_results)} \subseteq ValidIds
        /\ Len(validated_results) = Min(req.top_k, Cardinality(ValidIds))

\* one candidate kept with validation_score exactly 0.3, another discarded
C6_Witness ==
    /\ Ranked
    /\ \E i \in 1..Len(points) : verdicts[i].score = Rat(3, 10) /\ verdicts[i].is_valid
    /\ \E i \in 1..Len(points) : ~verdicts[i].is_valid
    /\ validated_results # <<>>

\* the rows of the store whose model contains at least one model term
AnyTermRows ==
    {i \in 1..Len(store) :
         \E j \in 1..Len(search_terms.model_terms) :
             Ilike(store[i].model, search_terms.model_terms[j])}

\* C10: when no semantic candidate was validated and exactly one row of the
\* store has a model containing at least one of the query's model terms (no
\* make or year mismatch), the request returns exactly that row, scored 0.8,
\* source = fallback.
C10_FallbackReturnsRowMatchingOneTerm ==
    (/\ pc = "done"
     /\ req.op = "search_battery_for_vehicle"
     /\ Called("store_query")
     /\ ~SomeCallFailed
     /\ Cardinality(AnyTermRows) = 1
     /\ \A i \in AnyTermRows :
            /\ Truthy(store[i].chrome_model)
            /\ (search_terms.make # NoneVal => Ilike(store[i].make, search_terms.make))
            /\ (search_terms.year # NoneVal => store[i].year = search_terms.year))
    => \A i \in AnyTermRows : ret = <<FallbackEntry(store[i])>>

\* a battery identifier case-folded, without the "-BS" suffix and the separators
CanonicalBattery(chrome_model) ==
    Replace(Replace(Upper(chrome_model), BS, <<>>), Dash, <<>>)
\* no two entries of a list have the same canonical battery identifier
CanonicalKeysUnique(entries) ==
    \A i, j \in 1..Len(entries) :
        i # j => CanonicalBattery(entries[i].chrome_model)
                     # CanonicalBattery(entries[j].chrome_model)

\* C11: in the list the Fallback Resolver returns and in the battery list
\* find_battery_for_vehicle presents, no two entries have battery identifiers
\* that are equal after case-folding and separator/suffix normalization.
C11_DedupKeysAreCanonical ==
    pc = "done" =>
        /\ (req.op = "find_battery_for_vehicle" => CanonicalKeysUnique(reply.shown))
        /\ (req.op = "search_battery_for_vehicle" /\ Called("store_query")
                => CanonicalKeysUnique(ret))

\* the request in flight reached the Fallback Resolver: both remote calls
\* answered and no fetched candidate was validated
FallbackInvoked ==
    /\ req.op = "search_battery_for_vehicle"
    /\ Len(calls) >= 2 /\ calls[1].ok /\ calls[2].ok
    /\ ValidatedResults(points, search_terms, req.top_k) = <<>>

\* C15: when the Fallback Resolver is reached and the store is not configured,
\* or the store call fails, or the store selects no row, the resolver hands an
\* empty list to search_battery_for_vehicle, which returns an empty list; no
\* exception leaves either.
C15_FallbackFailureGivesEmptyList ==
    (/\ pc = "done"
     /\ FallbackInvoked
     /\ \/ ~supabase
        \/ Failed("store_query")
        \/ StoreExecute(search_terms, req.top_k) = <<>>)
    => validated_results = <<>> /\ ret = <<>> /\ ~raised

\* the store call failed although the store holds a row that matches the query
C15_Witness ==
    /\ pc = "done"
    /\ FallbackInvoked
    /\ Failed("store_query")
    /\ StoreExecute(search_terms, req.top_k) # <<>>
    /\ ret = <<>>

\* the remote calls that only read: embeddings.create, query_points,
\* select(...).execute(), and the Chroma connection and collection.query
ReadingCalls == {"embed", "vector_query", "store_query", "chroma_connect", "chroma_query"}

\* C16: no step of any request, successful, empty or failing, changes the
\* contents of the vector index or of the relational store, and every remote
\* call issued is a query/select.
C16_CatalogIsReadOnly ==
    [][/\ index' = index
       /\ store' = store
       /\ \A i \in 1..Len(calls') : calls'[i].call \in ReadingCalls]_vars

\* a request that queried the index and selected rows of the store has returned
C16_Witness ==
    /\ pc = "done"
    /\ Called("vector_query")
    /\ Called("store_query")
    /\ ~SomeCallFailed
    /\ ret # <<>>

\* both remote calls of a battery-for-vehicle request answered
SemanticCallsSucceeded ==
    /\ req.op = "search_battery_for_vehicle"
    /\ Len(calls) >= 2 /\ calls[1].ok /\ calls[2].ok

\* C17: when the embedding and the index call succeed, the Fallback Resolver is
\* consulted exactly when the validated, sorted and truncated semantic list is
\* empty: a non-empty semantic list is returned as it is, without any store
\* query, and otherwise every returned entry is a fallback hit.
C17_FallbackIffSemanticListEmpty ==
    (pc = "done" /\ SemanticCallsSucceeded) =>
        LET ranked == ValidatedResults(points, search_terms, req.top_k)
        IN /\ ranked # <<>> =>
                  /\ ret = ranked
                  /\ ~Called("store_query")
                  /\ \A i \in 1..Len(ret) : ret[i].source = Absent
           /\ ranked = <<>> =>
                  /\ Called("store_query") <=> FallbackCallsStore(search_terms)
                  /\ ret = _supabase_fallback_search(search_terms, req.top_k,
                                                     ~Failed("store_query"))
                  /\ \A i \in 1..Len(ret) : ret[i].source = "supabase_fallback"

\* candidates were fetched, none was validated, and the request returned hits
\* of the Fallback Resolver
C17_Witness ==
    /\ pc = "done"
    /\ SemanticCallsSucceeded
    /\ points # <<>>
    /\ ret # <<>>
    /\ ret[1].source = "supabase_fallback"

\* the fetched candidates the Validator accepts, by position in the answer
ValidPositions == {i \in 1..Len(points) : verdicts[i].is_valid}
\* semantic_score * 0.4 + validation_score * 0.6 of the i-th fetched candidate
CombinedOf(i) ==
    RAdd(RMul(points[i].score, Rat(4, 10)), RMul(verdicts[i].score, Rat(6, 10)))
\* the positions of the fetched candidates that were returned
ReturnedPositions ==
    {i \in ValidPositions :
         \E j \in 1..Len(validated_results) : validated_results[j].id = points[i].payload.id}

\* C18: the semantic result holds min(K, number of valid candidates) distinct
\* valid candidates out of the at most max(50, K*10) fetched, each with its
\* combined_score, in non-increasing order of combined_score, and no valid
\* candidate left out has a combined_score greater than a returned one.
C18_TopKByCombinedScore ==
    Ranked =>
        /\ Len(points) <= Max(50, req.top_k * 10)
        /\ Len(validated_results) = Min(req.top_k, Cardinality(ValidPositions))
        /\ Cardinality(ReturnedPositions) = Len(validated_results)
        /\ \A j \in 1..Len(validated_results) :
               \E i \in ValidPositions :
                   /\ validated_results[j].id = points[i].payload.id
                   /\ validated_results[j].score = CombinedOf(i)
        /\ \A j \in 1..(Len(validated_results) - 1) :
               RLeq(validated_results[j + 1].score, validated_results[j].score)
        /\ \A i \in ValidPositions \ ReturnedPositions :
               \A j \in 1..Len(validated_results) :
                   RLeq(CombinedOf(i), validated_results[j].score)

\* two valid candidates, K = 1: the one fetched second has the higher
\* combined_score and is the one returned
C18_Witness ==
    /\ Ranked
    /\ req.top_k = 1
    /\ Cardinality(ValidPositions) = 2
    /\ Len(validated_results) = 1
    /\ \E i \in ValidPositions :
           /\ \E h \in ValidPositions : h < i
           /\ validated_results[1].id = points[i].payload.id
           /\ \A h \in ValidPositions \ {i} : RLt(CombinedOf(h), CombinedOf(i))

\* the model terms that are at least two characters long
LongModelTerms == SelectSeq(search_terms.model_terms, LAMBDA t : Len(t) >= 2)
\* the query of claim C21 as stated: contains on model for each of those, then
\* equality on make, then equality on year
StatedFallbackQuery ==
    [i \in 1..Len(LongModelTerms) |-> Condition("ilike", "model", LongModelTerms[i])]
    \o (IF search_terms.make # NoneVal
        THEN <<Condition("eq", "make", search_terms.make)>> ELSE <<>>)
    \o (IF search_terms.year # NoneVal
        THEN <<Condition("eq", "year", search_terms.year)>> ELSE <<>>)

\* C21 as stated: the query the Fallback Resolver sends to the store consists
\* of one case-insensitive contains condition on model for each model_term of
\* length >= 2 and for no other term, an equality condition on make when the
\* query has a make, and an equality condition on year when it has a year.
C21_QueryIsModelTermsExactMakeExactYear ==
    (req.op = "search_battery_for_vehicle" /\ Called("store_query"))
    => FallbackQuery(search_terms) = StatedFallbackQuery

\* the terms searched for in the model column: the model terms, or, when the
\* query has none, all its terms
SearchedTerms ==
    IF search_terms.model_terms # <<>> THEN search_terms.model_terms
    ELSE search_terms.all_terms
\* how many positions of a list of terms hold a term of length >= 2
LongTermCount(terms) == Cardinality({i \in 1..Len(terms) : Len(terms[i]) >= 2})

\* C21 amended: the query consists of one case-insensitive contains condition
\* on model for each term of length >= 2 of the searched terms (the model
\* terms, or all terms when there is no model term) and for no other term, a
\* case-insensitive contains condition on make when the query has a make, and
\* an equality condition on year when it has a year; every hit returned comes
\* from a row that satisfies all of them.
C21_QueryIsSearchedTermsContainsMakeExactYear ==
    (req.op = "search_battery_for_vehicle" /\ Called("store_query")) =>
        LET query == FallbackQuery(search_terms)
            has_make == search_terms.make # NoneVal
            has_year == search_terms.year # NoneVal
        IN /\ Len(query) = LongTermCount(SearchedTerms)
                               + (IF has_make THEN 1 ELSE 0) + (IF has_year THEN 1 ELSE 0)
           /\ \A i \in 1..Len(SearchedTerms) :
                  Len(SearchedTerms[i]) >= 2
                      <=> Condition("ilike", "model", SearchedTerms[i]) \in Range(query)
           /\ has_make <=> Condition("ilike", "make", search_terms.make) \in Range(query)
           /\ has_year <=> Condition("eq", "year", search_terms.year) \in Range(query)
           /\ \A i \in 1..Len(query) :
                  \/ query[i].column = "model" /\ query[i].op = "ilike"
                         /\ query[i].value \in Range(SearchedTerms)
                  \/ query[i] = Condition("ilike", "make", search_terms.make)
                  \/ query[i] = Condition("eq", "year", search_terms.year)
           /\ \A j \in 1..Len(ret) :
                  \E r \in 1..Len(store) :
                      /\ store[r].id = ret[j].id
                      /\ \A t \in 1..Len(SearchedTerms) :
                             Len(SearchedTerms[t]) >= 2
                                 => Contains(Lower(OrEmpty(store[r].model)),
                                             Lower(SearchedTerms[t]))
                      /\ (has_make => Contains(Lower(OrEmpty(store[r].make)),
                                               Lower(search_terms.make)))
                      /\ (has_year => store[r].year = search_terms.year)

\* the store answered a query with a model term, a make and a year by a row
\* whose make differs from the query's make in case
C21_Witness ==
    /\ pc = "done"
    /\ req.op = "search_battery_for_vehicle"
    /\ Called("store_query")
    /\ search_terms.model_terms # <<>>
    /\ search_terms.make # NoneVal
    /\ search_terms.year # NoneVal
    /\ ret # <<>>
    /\ ret[1].make # search_terms.make

\* the positions of the rows of the store that the query selects, and those
\* among them that lie within the first K*3 selected
SelectedPositions == {r \in 1..Len(store) : RowMatches(store[r], search_terms)}
CappedPositions ==
    {r \in SelectedPositions :
         Cardinality({q \in SelectedPositions : q <= r}) <= req.top_k * 3}
\* the position in the store of the row a hit was made from (row ids are unique)
PositionOf(hit) == CHOOSE r \in 1..Len(store) : store[r].id = hit.id

\* C22: the Fallback Resolver reads at most K*3 rows of the store, returns at
\* most K hits, in store order, each made from one of the rows read, each with
\* the fixed score 0.8 and source = fallback.
C22_FallbackReadsAtMost3KReturnsAtMostK ==
    (pc = "done" /\ req.op = "search_battery_for_vehicle" /\ Called("store_query")) =>
        /\ Len(StoreExecute(search_terms, req.top_k)) <= req.top_k * 3
        /\ Len(ret) <= req.top_k
        /\ \A j \in 1..Len(ret) :
               /\ ret[j].score = Rat(8, 10)
               /\ ret[j].source = "supabase_fallback"
               /\ \E r \in CappedPositions : store[r].id = ret[j].id
        /\ \A i, j \in 1..Len(ret) : i < j => PositionOf(ret[i]) < PositionOf(ret[j])

\* the query selects more than K*3 rows, the rows within the cap carry no
\* battery identifier and a row beyond the cap does: nothing is returned
C22_Witness ==
    /\ pc = "done"
    /\ req.op = "search_battery_for_vehicle"
    /\ Called("store_query")
    /\ ~SomeCallFailed
    /\ Cardinality(SelectedPositions) > req.top_k * 3
    /\ \E r \in SelectedPositions \ CappedPositions :
           store[r].chrome_model # NoneVal /\ store[r].chrome_model # <<>>
    /\ ret = <<>>

\* both remote calls of a vehicles-for-battery request answered and it returned
VfbAnswered ==
    /\ pc = "done"
    /\ req.op = "search_vehicles_for_battery"
    /\ Len(calls) = 2 /\ calls[1].ok /\ calls[2].ok
\* a stored identifier normalized the way the query identifier is: upper case,
\* without "-BS", without dashes
NormalizedStored(stored) == Replace(Replace(Upper(stored), BS, <<>>), Dash, <<>>)
\* the acceptance rule of claim C23 for a stored identifier that is a text:
\* equal to, containing or contained by one of the three spellings of the query
StatedAccepts(battery_model, stored) ==
    \E v \in SearchVariants(battery_model) :
        \/ NormalizedStored(stored) = v
        \/ Contains(NormalizedStored(stored), v)
        \/ Contains(v, NormalizedStored(stored))
\* the positions of the fetched candidates the rule accepts, and the first K
AcceptedPositions ==
    {i \in 1..Len(points) :
         /\ points[i].payload.chrome_model # NoneVal
         /\ StatedAccepts(req.query, points[i].payload.chrome_model)}
FirstAccepted ==
    {i \in AcceptedPositions :
         Cardinality({h \in AcceptedPositions : h <= i}) <= req.top_k}

\* C23: a vehicles-for-battery request with limit K returns exactly the first K
\* of the at most K*5 fetched candidates, in the index's rank order, whose
\* normalized stored identifier equals, contains or is contained by one of the
\* three spellings of the query identifier, and no other candidate.
C23_ResultIsFirstKAccepted ==
    VfbAnswered =>
        /\ Len(points) <= req.top_k * 5
        /\ Len(ret) = Cardinality(FirstAccepted)
        /\ \A i \in FirstAccepted : \E j \in 1..Len(ret) : ret[j].id = points[i].payload.id
        /\ \A j \in 1..Len(ret) : \E i \in FirstAccepted : ret[j].id = points[i].payload.id
        /\ \A j, l \in 1..Len(ret) :
               j < l => \E i, h \in FirstAccepted :
                            /\ i < h
                            /\ ret[j].id = points[i].payload.id
                            /\ ret[l].id = points[h].payload.id

\* the names of the remote calls issued so far, in order
CallNames == [i \in 1..Len(calls) |-> calls[i].call]
IsPrefix(s, t) == Len(s) <= Len(t) /\ s = SubSeq(t, 1, Len(s))

IdentifiedPositions ==
    {i \in 1..Len(points) : Truthy(OrEmpty(points[i].payload.chrome_model))}

EarnsMakeCredit(record) ==
    LET record_make == Lower(OrEmpty(record.make))
    IN /\ search_terms.make # NoneVal
       /\ \/ Contains(record_make, search_terms.make)
          \/ Contains(search_terms.make, record_make)
          \/ Contains(record_make, SplitWhitespace(search_terms.make)[1])
EarnsYearCredit(record) ==
    search_terms.year # NoneVal /\ OrEmpty(record.year) = search_terms.year

\* C27: in a battery-for-vehicle request whose normalized query has no
\* model_terms, a fetched candidate is valid exactly when the query has a make
\* and a year and the record earns make credit (full or partial) and year
\* credit; so when the make or the year is missing no candidate is validated,
\* and a query with no significant token at all returns the empty list.
C27_NoModelTermsNeedsMakeAndYear ==
    (req.op = "search_battery_for_vehicle" /\ search_terms.model_terms = <<>>) =>
        /\ \A i \in 1..Len(points) :
               verdicts[i].is_valid
                   <=> /\ EarnsMakeCredit(points[i].payload)
                       /\ EarnsYearCredit(points[i].payload)
        /\ (search_terms.make = NoneVal \/ search_terms.year = NoneVal) =>
               /\ \A i \in 1..Len(points) : ~verdicts[i].is_valid
               /\ (Ranked => validated_results = <<>>)
        /\ (pc = "done" /\ search_terms.all_terms = <<>>) => ret = <<>>

\* a compound make and a year without a model term: the record whose make
\* holds the first word of the make, of that year, is validated with score 0.3
\* exactly and returned
C27_Witness ==
    /\ pc = "done"
    /\ req.op = "search_battery_for_vehicle"
    /\ search_terms.model_terms = <<>>
    /\ search_terms.make = Str("arctic cat")
    /\ \E i \in 1..Len(points) : verdicts[i].is_valid /\ verdicts[i].score = Rat(3, 10)
    /\ \E i \in 1..Len(points) : ~verdicts[i].is_valid
    /\ ret # <<>>
    /\ ret[1].source = Absent

\* the terms of the normalized query
QueryTerms == Range(search_terms.all_terms) \cup Range(search_terms.model_terms)

\* C28: every hit the Fallback Resolver returns has a model that contains,
\* case-insensitively, at least one term of the normalized query: no row is
\* returned that was selected without a condition on its model.
C28_FallbackHitsContainAQueryTerm ==
    (pc = "done" /\ req.op = "search_battery_for_vehicle" /\ Called("store_query")) =>
        \A j \in 1..Len(ret) :
            \E t \in QueryTerms : Contains(Lower(OrEmpty(ret[j].model)), Lower(t))

\* the query identifier in canonical form: upper case, no "-BS", no dashes
CanonicalQuery == Replace(ModelWithoutBs(req.query), Dash, <<>>)

\* C29: a vehicles-for-battery request returns a candidate only if the
\* canonical query identifier and the candidate's canonical stored identifier
\* are both non-empty: no returned candidate has a missing or empty battery
\* identifier, and an empty or separator-only query returns no candidate.
C29_AcceptanceNeedsNonEmptyIdentifiers ==
    (pc = "done" /\ req.op = "search_vehicles_for_battery") =>
        /\ \A j \in 1..Len(ret) :
               /\ ret[j].chrome_model # NoneVal
               /\ NormalizedStored(ret[j].chrome_model) # <<>>
        /\ (CanonicalQuery = <<>> => ret = <<>>)

\* the fetched candidates whose battery identifier is null
MalformedPositions == {i \in 1..Len(points) : points[i].payload.chrome_model = NoneVal}
\* the well-formed fetched candidates that the acceptance test of the code
\* accepts, and the first K of them
WellFormedMatches ==
    {i \in (1..Len(points)) \ MalformedPositions :
         IsMatch(req.query, points[i].payload.chrome_model)}
FirstWellFormedMatches ==
    {i \in WellFormedMatches :
         Cardinality({h \in WellFormedMatches : h <= i}) <= req.top_k}

\* C30: when one fetched candidate of a vehicles-for-battery request has a null
\* battery identifier, it is skipped and the others are unaffected: each of the
\* first K well-formed candidates that satisfy the acceptance test, ranked
\* before or after it, is returned.
C30_MalformedCandidateIsIsolated ==
    (VfbAnswered /\ Cardinality(MalformedPositions) = 1) =>
        \A i \in FirstWellFormedMatches :
            \E j \in 1..Len(ret) : ret[j].id = points[i].payload.id


(***************************************************************************)
(* The Normalizer alone: _extract_search_terms applied to queries composed *)
(* of up to MaxPieces pieces joined by separators                          *)
(***************************************************************************)
MaxPieces == 2

NormalizerPieces ==
    {Str("2020"), Str("1999"), Str("2100"), Str("x2020"), Str("Honda"),
     Str("arctic cat"), Str("Can-Am"), Str("bike"), Str("jet ski"),
     Str("CBR600"), Str("100"), Str("Side-by-Side")}
Separators == {" ", "-", "/", ".", "_"}

RECURSIVE Compositions(_, _)
Compositions(pieces, n) ==
    IF n <= 1 THEN pieces
    ELSE LET shorter == Compositions(pieces, n - 1)
         IN shorter \cup {q \o <<sep>> \o p :
                             q \in shorter, sep \in Separators, p \in pieces}
NormalizerQueries == {<<>>} \cup Compositions(NormalizerPieces, MaxPieces)

PureRequest(op, query) == [op |-> op, query |-> query, top_k |-> 0]

InitNormalize ==
    /\ index = {}
    /\ store = <<>>
    /\ supabase = FALSE
    /\ pc = "normalize"
    /\ req \in {PureRequest("_extract_search_terms", q) : q \in NormalizerQueries}
    /\ search_terms = NoTerms
    /\ points = <<>>
    /\ verdicts = <<>>
    /\ validated_results = <<>>
    /\ ret = <<>>
    /\ reply = NoReply
    /\ raised = FALSE
    /\ calls = <<>>

\* search_terms = self._extract_search_terms(query)
Normalize ==
    /\ pc = "normalize"
    /\ search_terms' = _extract_search_terms(req.query)
    /\ pc' = "normalized"
    /\ UNCHANGED <<index, store, supabase, req, points, verdicts, validated_results,
                   ret, reply, raised, calls>>

SpecNormalize == InitNormalize /\ [][Normalize]_vars

Normalized == pc = "normalized"

\* the maximal runs of word characters of a text
WordRuns(text) ==
    SplitOn({c \in Range(text) : ~IsWordChar(c)}, text, <<>>, <<>>)
\* a 4-digit text in the range 1900-2099
IsYearText(t) ==
    /\ Len(t) = 4
    /\ IsDigit(t)
    /\ SubSeq(t, 1, 2) \in {Str("19"), Str("20")}
YearTokens(q) == SelectSeq(WordRuns(q), IsYearText)

\* C8: the Normalizer returns a year exactly when the query holds a 4-digit
\* token (a maximal run of word characters) in the range 1900-2099; the year is
\* the first such token, and no term of all_terms or model_terms is a year.
C8_YearIffYearToken ==
    Normalized =>
        /\ (search_terms.year # NoneVal) <=> (YearTokens(req.query) # <<>>)
        /\ (search_terms.year # NoneVal => search_terms.year = YearTokens(req.query)[1])
        /\ \A i \in 1..Len(search_terms.all_terms) :
               ~IsYearText(search_terms.all_terms[i])
        /\ \A i \in 1..Len(search_terms.model_terms) :
               ~IsYearText(search_terms.model_terms[i])

\* a query with a year token and other terms, normalized; and one whose only
\* 4-digit run is out of range or glued to a letter
C8_Witness ==
    /\ Normalized
    /\ search_terms.year = Str("2020")
    /\ search_terms.all_terms # <<>>
    /\ Contains(req.query, Str("1999"))

\* the tokens of a directory entry
EntryTokens(entry) == Tokenize(entry)
BeginsWith(tokens, prefix) ==
    Len(tokens) >= Len(prefix) /\ SubSeq(tokens, 1, Len(prefix)) = prefix

\* C9: for every entry of the manufacturer directory, single-word, two-word or
\* hyphenated, a query whose significant tokens begin with the entry gets
\* make = entry and model_terms = the remaining tokens in order; when the
\* leading tokens match no entry, make is None and model_terms = all_terms.
C9_EveryDirectoryEntryIsExtracted ==
    Normalized =>
        /\ \A entry \in known_makes :
               BeginsWith(search_terms.all_terms, EntryTokens(entry))
               => /\ search_terms.make = entry
                  /\ search_terms.model_terms =
                         SubSeq(search_terms.all_terms, Len(EntryTokens(entry)) + 1,
                                Len(search_terms.all_terms))
        /\ (\A entry \in known_makes :
                ~BeginsWith(search_terms.all_terms, EntryTokens(entry)))
           => /\ search_terms.make = NoneVal
              /\ search_terms.model_terms = search_terms.all_terms

\* the tokens of the query once lowercased and rid of its years
QueryTokens(q) == Tokenize(Strip(YearSub(Strip(Lower(q)))))
\* the positions of tokens that lie inside an occurrence of a stoplist entry
\* (the entry's words, consecutive)
StoplistPositions(tokens) ==
    {i \in 1..Len(tokens) :
         \E entry \in vehicle_types :
             \E j \in 1..i :
                 /\ i < j + Len(EntryTokens(entry))
                 /\ j + Len(EntryTokens(entry)) - 1 <= Len(tokens)
                 /\ SubSeq(tokens, j, j + Len(EntryTokens(entry)) - 1) = EntryTokens(entry)}
\* the words of the query that occur only inside occurrences of stoplist entries
StoplistWords(tokens) ==
    {tokens[i] : i \in StoplistPositions(tokens)}
        \ {tokens[i] : i \in (1..Len(tokens)) \ StoplistPositions(tokens)}

\* C20: every occurrence of every stoplist entry, single-word, multi-word or
\* hyphenated, is removed: no word that the query holds only as part of a
\* stoplist entry remains in all_terms or model_terms.
C20_StoplistEntriesAreRemoved ==
    Normalized =>
        \A w \in StoplistWords(QueryTokens(req.query)) :
            /\ w \notin Range(search_terms.all_terms)
            /\ w \notin Range(search_terms.model_terms)


(***************************************************************************)
(* The Validator alone: _validate_vehicle_match applied to one record and  *)
(* the normalized form of a composed query                                 *)
(***************************************************************************)
ValidatorPieces ==
    {Str("100"), Str("1000"), Str("GL1000"), Str("gl"), Str("Sport"),
     Str("Honda"), Str("2020"), Str("Arctic Cat")}
ValidatorQueries == {<<>>} \cup Compositions(ValidatorPieces, MaxPieces)

ValidatorRecords ==
    {Point(21, "vehicle_to_battery", Str("Honda"), Str("GL1000"), Str("1980"),
           Str("YTX14-BS"), Str("CB-YTX14")),
     Point(22, "vehicle_to_battery", Str("Aeon (Benzai)"), Str("Cobra/CX-Sport 100"),
           Str("2008"), Str("YTX4L-BS"), Str("CB-YTX4L")),
     Point(23, "vehicle_to_battery", Str("Honda"), Str("Gold Wing 1000"), Str("2020"),
           Str("YTX14-BS"), Str("CB-YTX14")),
     Point(24, "vehicle_to_battery", Str(""), Str("GL-1000/100"), Str("2020"),
           Str("YTX14-BS"), Str("CB-YTX14")),
     Point(25, "vehicle_to_battery", NoneVal, NoneVal, NoneVal, NoneVal, NoneVal),
     Point(26, "vehicle_to_battery", Str("Arctic (Textron)"), Str("Sport"), Str("2020"),
           Str("YTX14-BS"), Str("CB-YTX14"))}

InitValidate ==
    /\ index = {}
    /\ store = <<>>
    /\ supabase = FALSE
    /\ pc = "validate"
    /\ req \in {PureRequest("_validate_vehicle_match", q) : q \in ValidatorQueries}
    /\ search_terms = NoTerms
    /\ points \in {<<[payload |-> r, score |-> One]>> : r \in ValidatorRecords}
    /\ verdicts = <<>>
    /\ validated_results = <<>>
    /\ ret = <<>>
    /\ reply = NoReply
    /\ raised = FALSE
    /\ calls = <<>>

\* search_terms = self._extract_search_terms(query)
\* is_valid, match_score = self._validate_vehicle_match(result_dict, search_terms)
Validate ==
    /\ pc = "validate"
    /\ search_terms' = _extract_search_terms(req.query)
    /\ verdicts' = Verdicts(points, _extract_search_terms(req.query))
    /\ pc' = "validated"
    /\ UNCHANGED <<index, store, supabase, req, points, validated_results,
                   ret, reply, raised, calls>>

SpecValidate == InitValidate /\ [][Validate]_vars

Validated == pc = "validated"

\* the record's normalized model: lowercased, '/' and '-' replaced by spaces
RecordModelText(record) ==
    Replace(Replace(Lower(OrEmpty(record.model)), <<"/">>, <<" ">>), <<"-">>, <<" ">>)
\* the model terms that are all digits and are no whole token of the record's model
NumericMisses(terms, record) ==
    {i \in 1..Len(terms.model_terms) :
         /\ IsDigit(terms.model_terms[i])
         /\ terms.model_terms[i] \notin Range(SplitWhitespace(RecordModelText(record)))}
Indicator(b, credit) == IF b THEN credit ELSE Zero

\* C7: a model term made only of digits earns credit only as a whole token of
\* the record's normalized model: the terms that are numeric and no whole token
\* add nothing, so the score is at most 0.6 times the share of the other terms,
\* plus 0.25 if the query has a make, plus 0.15 if it has a year; when every
\* model term is such a term and the query has neither, the score is 0.
C7_NumericTermsNeedExactToken ==
    Validated =>
        LET n == Len(search_terms.model_terms)
            misses == Cardinality(NumericMisses(search_terms, points[1].payload))
        IN n > 0 =>
               RLeq(verdicts[1].score,
                    RAdd(RMul(Rat(6, 10), Rat(n - misses, n)),
                         RAdd(Indicator(search_terms.make # NoneVal, Rat(25, 100)),
                              Indicator(search_terms.year # NoneVal, Rat(15, 100)))))

\* the term "100" validated against the model "gl1000" scored 0
C7_Witness ==
    /\ Validated
    /\ search_terms.model_terms = <<Str("100")>>
    /\ search_terms.make = NoneVal
    /\ search_terms.year = NoneVal
    /\ RecordModelText(points[1].payload) = Str("gl1000")
    /\ verdicts[1].score = Zero

\* the credit the claim gives one model term against the record's normalized
\* model text: 1 for a whole token, else 1 for a substring of the text, else
\* 1/2 for partial token overlap, else 0; with numeric_exact, a term made only
\* of digits gets 1 for a whole token and 0 otherwise
ClaimTermCredit(term, text, numeric_exact) ==
    LET tokens == Range(SplitWhitespace(text))
    IN IF term \in tokens THEN One
       ELSE IF numeric_exact /\ IsDigit(term) THEN Zero
       ELSE IF Contains(text, term) THEN One
       ELSE IF \E t \in tokens : Contains(t, term) \/ Contains(term, t) THEN Rat(1, 2)
       ELSE Zero
RECURSIVE ClaimCreditSum(_, _, _)
ClaimCreditSum(model_terms, text, numeric_exact) ==
    IF model_terms = <<>> THEN Zero
    ELSE RAdd(ClaimTermCredit(Head(model_terms), text, numeric_exact),
              ClaimCreditSum(Tail(model_terms), text, numeric_exact))
ClaimModelCredit(terms, record, numeric_exact) ==
    IF terms.model_terms = <<>> THEN Zero
    ELSE RMul(Rat(6, 10),
              RMul(ClaimCreditSum(terms.model_terms, RecordModelText(record), numeric_exact),
                   Rat(1, Len(terms.model_terms))))
ClaimMakeCredit(terms, record) ==
    LET record_make == Lower(OrEmpty(record.make))
    IN IF terms.make = NoneVal THEN Zero
       ELSE IF Contains(record_make, terms.make) \/ Contains(terms.make, record_make)
            THEN Rat(25, 100)
       ELSE IF Contains(record_make, SplitWhitespace(terms.make)[1]) THEN Rat(15, 100)
       ELSE Zero
ClaimYearCredit(terms, record) ==
    IF terms.year # NoneVal /\ terms.year = OrEmpty(record.year) THEN Rat(15, 100) ELSE Zero
ClaimScore(terms, record, numeric_exact) ==
    RAdd(ClaimModelCredit(terms, record, numeric_exact),
         RAdd(ClaimMakeCredit(terms, record), ClaimYearCredit(terms, record)))

\* C19 as stated: the Validator's score is 0.6 x the average per-term credit
\* (whole token 1, else substring 1, else partial overlap 1/2, for every term)
\* + the make credit (0.25, else 0.15 on the first word, else 0) + 0.15 for an
\* equal year, and is_valid holds exactly when the score is at least 0.3.
C19_ScoreIsWeightedSum ==
    Validated =>
        /\ verdicts[1].score = ClaimScore(search_terms, points[1].payload, FALSE)
        /\ verdicts[1].is_valid <=> RLeq(Rat(3, 10), verdicts[1].score)

\* C19 amended: the same sum, except that a model term made only of digits
\* earns 1 for a whole token of the record's model and nothing otherwise.
C19_ScoreIsWeightedSumNumericExact ==
    Validated =>
        /\ verdicts[1].score = ClaimScore(search_terms, points[1].payload, TRUE)
        /\ verdicts[1].is_valid <=> RLeq(Rat(3, 10), verdicts[1].score)

\* a compound make that earns the 0.15 first-word credit, with a model term
\* and a year that both match: 0.6 + 0.15 + 0.15
C19_Witness ==
    /\ Validated
    /\ search_terms.make = Str("arctic cat")
    /\ search_terms.model_terms # <<>>
    /\ ClaimMakeCredit(search_terms, points[1].payload) = Rat(15, 100)
    /\ verdicts[1].score = Rat(75, 100) \/ verdicts[1].score = Rat(9, 10)

\* the sum of the three weighted components for the validated record
WeightedSum(terms, record) ==
    RAdd(ModelPart(terms.model_terms, RecordModelText(record)),
         RAdd(MakePart(terms.make, Lower(OrEmpty(record.make))),
              YearPart(terms.year, OrEmpty(record.year))))

\* C26: for every output of the Normalizer, no make means model_terms is
\* all_terms, so no make and no model_terms means no term at all: the
\* all-terms branch of the Validator computes nothing and the score is the
\* weighted-component sum.
C26_AllTermsBranchNeverChangesScore ==
    Validated =>
        /\ (search_terms.make = NoneVal
                => search_terms.model_terms = search_terms.all_terms)
        /\ (search_terms.make = NoneVal /\ search_terms.model_terms = <<>>
                => search_terms.all_terms = <<>>)
        /\ AllTermsPart(search_terms, RecordModelText(points[1].payload),
                        Lower(OrEmpty(points[1].payload.make))) = Zero
        /\ verdicts[1].score = WeightedSum(search_terms, points[1].payload)

\* a query holding only a year: the branch's guard holds, it has no term to
\* count, and the score is the year credit
C26_Witness ==
    /\ Validated
    /\ search_terms.make = NoneVal
    /\ search_terms.model_terms = <<>>
    /\ search_terms.year # NoneVal
    /\ verdicts[1].score = Rat(15, 100)


(***************************************************************************)
(* The formatters alone: _format_battery_results and                       *)
(* _format_vehicle_results applied to result lists                         *)
(***************************************************************************)
MaxResults == 3
MaxPerMake == 11

\* a result dict as ChromaFitmentsRetriever hands it to the formatters
ResultEntry(id, make, model, year, chrome_model) ==
    ChromaEntry([payload |-> Point(id, "result", make, model, year, chrome_model,
                                   Str("CB-SKU")),
                 score |-> One])

\* battery results: two vehicles with the same battery, one with another, and
\* one whose metadata has no chrome_model
BatteryEntries ==
    {ResultEntry(31, Str("Honda"), Str("CBR600RR"), Str("2020"), Str("YTZ7S")),
     ResultEntry(32, Str("Yamaha"), Str("YZF-R6"), Str("2019"), Str("YTZ7S")),
     ResultEntry(33, Str("Honda"), Str("GL1000"), Str("1980"), Str("YTX14-BS")),
     ResultEntry(34, Str("Suzuki"), Str("GSX-R750"), Str("2015"), NoneVal)}

RECURSIVE ListsUpTo(_, _)
ListsUpTo(S, n) ==
    IF n = 0 THEN {<<>>}
    ELSE LET shorter == ListsUpTo(S, n - 1)
         IN shorter \cup {Append(l, e) : l \in {x \in shorter : Len(x) = n - 1}, e \in S}
BatteryResultLists == ListsUpTo(BatteryEntries, MaxResults)

\* decimal text of a natural number
DigitChars == Str("0123456789")
RECURSIVE NumText(_)
NumText(i) ==
    IF i < 10 THEN <<DigitChars[i + 1]>>
    ELSE NumText(i \div 10) \o <<DigitChars[(i % 10) + 1]>>

\* vehicle results: counts[m] vehicles of make FormatMakes[m], make after make;
\* optionally the first vehicle without a model, optionally the first vehicle
\* once more at the end under another id
FormatMakes == <<Str("Yamaha"), Str("Honda"), Str("Suzuki")>>
VehiclesOfMake(m, n) ==
    [i \in 1..n |-> ResultEntry(100 * m + i, FormatMakes[m], <<"M">> \o NumText(i),
                                Str("2020"), Str("YTZ7S"))]
VehicleResultList(counts, blank, dup) ==
    LET base == VehiclesOfMake(1, counts[1]) \o VehiclesOfMake(2, counts[2])
                    \o VehiclesOfMake(3, counts[3])
        blanked == IF blank /\ base # <<>>
                   THEN <<[base[1] EXCEPT !.model = <<>>]>> \o Tail(base)
                   ELSE base
    IN IF dup /\ base # <<>>
       THEN Append(blanked, [blanked[1] EXCEPT !.id = 999])
       ELSE blanked
\* none, one, exactly the per-make cap, one more than the cap
PerMakeCounts == {0, 1, MaxPerMake - 1, MaxPerMake}
VehicleResultLists ==
    {VehicleResultList(counts, blank, dup) :
         counts \in [1..3 -> PerMakeCounts], blank \in BOOLEAN, dup \in BOOLEAN}

InitFormat ==
    /\ index = {}
    /\ store = <<>>
    /\ supabase = FALSE
    /\ pc = "format"
    /\ \/ /\ req = PureRequest("_format_battery_results", <<>>)
          /\ ret \in BatteryResultLists
       \/ /\ req = PureRequest("_format_vehicle_results", Str("YTZ7S"))
          /\ ret \in VehicleResultLists
    /\ search_terms = NoTerms
    /\ points = <<>>
    /\ verdicts = <<>>
    /\ validated_results = <<>>
    /\ reply = NoReply
    /\ raised = FALSE
    /\ calls = <<>>

\* formatted = _format_battery_results(results); validated_results keeps the
\* list unique_batteries the formatter built
FormatBatteries ==
    /\ pc = "format"
    /\ req.op = "_format_battery_results"
    /\ validated_results' = UniqueBatteries(ret)
    /\ reply' = _format_battery_results(ret)
    /\ pc' = "formatted"
    /\ UNCHANGED <<index, store, supabase, req, search_terms, points, verdicts, ret,
                   raised, calls>>

\* formatted = _format_vehicle_results(results, battery_model); validated_results
\* keeps the list unique_vehicles the formatter built
FormatVehicles ==
    /\ pc = "format"
    /\ req.op = "_format_vehicle_results"
    /\ validated_results' = UniqueVehicles(ret)
    /\ reply' = _format_vehicle_results(ret, req.query)
    /\ pc' = "formatted"
    /\ UNCHANGED <<index, store, supabase, req, search_terms, points, verdicts, ret,
                   raised, calls>>

NextFormat == FormatBatteries \/ FormatVehicles

SpecFormat == InitFormat /\ [][NextFormat]_vars

Formatted(op) == pc = "formatted" /\ req.op = op

\* the entries of s at the positions of P, in order
RECURSIVE PickFrom(_, _, _)
PickFrom(s, P, i) ==
    IF i > Len(s) THEN <<>>
    ELSE (IF i \in P THEN <<s[i]>> ELSE <<>>) \o PickFrom(s, P, i + 1)
\* the positions that hold the first occurrence of their key
FirstPositions(keys) == {i \in 1..Len(keys) : \A j \in 1..(i - 1) : keys[j] # keys[i]}
BatteryKeys(results) == [i \in 1..Len(results) |-> results[i].chrome_model]
VehicleKeys(results) == [i \in 1..Len(results) |-> VehicleKey(results[i])]

\* C12: battery deduplication keeps exactly the first occurrence of each battery
\* identifier, in input order (an entry that has no identifier has no key and is
\* not kept); vehicle deduplication keeps exactly the first occurrence of each
\* (make, model, year), in input order; applying either to its own output
\* returns the same sequence.
C12_DedupKeepsFirstOfEachKey ==
    /\ Formatted("_format_battery_results") =>
           /\ validated_results =
                  PickFrom(ret, {i \in FirstPositions(BatteryKeys(ret)) :
                                     Truthy(ret[i].chrome_model)}, 1)
           /\ UniqueBatteries(validated_results) = validated_results
    /\ Formatted("_format_vehicle_results") =>
           /\ validated_results = PickFrom(ret, FirstPositions(VehicleKeys(ret)), 1)
           /\ UniqueVehicles(validated_results) = validated_results

\* a battery list whose first identifier comes back after another one
C12_Witness ==
    /\ Formatted("_format_battery_results")
    /\ Len(ret) = 3
    /\ ret[1].chrome_model = ret[3].chrome_model
    /\ ret[1].chrome_model # ret[2].chrome_model
    /\ Len(validated_results) = 2

\* C13: whenever a deduplicated vehicle is not displayed, the presentation
\* carries an indicator whose N is the number of deduplicated vehicles not
\* displayed; when every one is displayed there is no indicator (N = 0).
C13_MoreIndicatorCountsOmitted ==
    Formatted("_format_vehicle_results") =>
        reply.more = Len(validated_results) - Len(reply.shown)

(***************************************************************************)
(* Concurrent requests on one retriever instance.  Every variable of a     *)
(* request is a local of its call, so here it is a function of the request:*)
(* pc[r], req[r], ret[r], ... ; index, store and supabase are the instance *)
(* and the catalog, shared by all requests.                                *)
(***************************************************************************)
MaxRequests == 2
Requests == 1..MaxRequests

ConcurrentCatalog == {V1, B1}
ConcurrentStore == <<R1>>
ConcurrentVehicleQueries == {Str("2020 Honda CBR600"), Str("CX-Sport 100")}
ConcurrentBatteryQueries == {Str("YTZ7S")}
ConcurrentTopKs == {MaxK}

SharedFrame(r) == 1

\* where the locals of request r live (search_terms, results.points,
\* validated_results): in the frame of its own call
Frame(r) == r

\* a remote call that answered, with its answer
AnsweredCall(name, answer) == [call |-> name, ok |-> TRUE, answer |-> answer]

InitConcurrent ==
    /\ index = ConcurrentCatalog
    /\ store = ConcurrentStore
    /\ supabase = TRUE
    /\ pc = [r \in Requests |-> "idle"]
    /\ req = [r \in Requests |-> NoRequest]
    /\ search_terms = [r \in Requests |-> NoTerms]
    /\ points = [r \in Requests |-> <<>>]
    /\ verdicts = [r \in Requests |-> <<>>]
    /\ validated_results = [r \in Requests |-> <<>>]
    /\ ret = [r \in Requests |-> <<>>]
    /\ reply = NoReply
    /\ raised = [r \in Requests |-> FALSE]
    /\ calls = [r \in Requests |-> <<>>]

\* request r arrives; in the battery-for-vehicle direction
\* search_terms = self._extract_search_terms(query)
ConcStart(r) ==
    /\ pc[r] = "idle"
    /\ \/ \E q \in ConcurrentVehicleQueries, k \in ConcurrentTopKs :
            /\ req' = [req EXCEPT ![r] = [op |-> "search_battery_for_vehicle",
                                          query |-> q, top_k |-> k]]
            /\ search_terms' = [search_terms EXCEPT ![Frame(r)] = _extract_search_terms(q)]
       \/ \E q \in ConcurrentBatteryQueries, k \in ConcurrentTopKs :
            /\ req' = [req EXCEPT ![r] = [op |-> "search_vehicles_for_battery",
                                          query |-> q, top_k |-> k]]
            /\ UNCHANGED search_terms
    /\ pc' = [pc EXCEPT ![r] = "embed"]
    /\ UNCHANGED <<index, store, supabase, points, verdicts, validated_results, ret,
                   reply, raised, calls>>

\* query_vector = self._embed_query(query)
ConcEmbed(r) ==
    /\ pc[r] = "embed"
    /\ \E ok \in BOOLEAN :
        /\ calls' = [calls EXCEPT ![r] = Append(@, RemoteCall("embed", ok))]
        /\ IF ok
           THEN pc' = [pc EXCEPT ![r] = "query"] /\ UNCHANGED <<ret, raised>>
           ELSE /\ pc' = [pc EXCEPT ![r] = "done"]
                /\ ret' = [ret EXCEPT ![r] = ReturnEmptyList.ret]
                /\ raised' = [raised EXCEPT ![r] = ReturnEmptyList.raised]
    /\ UNCHANGED <<index, store, supabase, req, search_terms, points, verdicts,
                   validated_results, reply>>

\* search_battery_for_vehicle: query_points, validation loop, sort, truncation
ConcBfvQuery(r) ==
    /\ pc[r] = "query"
    /\ req[r].op = "search_battery_for_vehicle"
    /\ \/ \E answer \in IndexAnswers("vehicle_to_battery",
                                      Max(BFV_FETCH_MIN, req[r].top_k * BFV_FETCH_FACTOR)) :
            /\ calls' = [calls EXCEPT ![r] = Append(@, AnsweredCall("vector_query", answer))]
            /\ points' = [points EXCEPT ![Frame(r)] = answer]
            /\ verdicts' = [verdicts EXCEPT ![Frame(r)] =
                                Verdicts(answer, search_terms[Frame(r)])]
            /\ validated_results' = [validated_results EXCEPT ![Frame(r)] =
                   ValidatedResults(answer, search_terms[Frame(r)], req[r].top_k)]
            /\ pc' = [pc EXCEPT ![r] = "bfv_ranked"]
            /\ UNCHANGED <<ret, raised>>
       \/ /\ calls' = [calls EXCEPT ![r] = Append(@, RemoteCall("vector_query", FALSE))]
          /\ pc' = [pc EXCEPT ![r] = "done"]
          /\ ret' = [ret EXCEPT ![r] = ReturnEmptyList.ret]
          /\ raised' = [raised EXCEPT ![r] = ReturnEmptyList.raised]
          /\ UNCHANGED <<points, verdicts, validated_results>>
    /\ UNCHANGED <<index, store, supabase, req, search_terms, reply>>

\* `if not validated_results:` is false: return validated_results
ConcBfvReturn(r) ==
    /\ pc[r] = "bfv_ranked"
    /\ validated_results[Frame(r)] # <<>>
    /\ ret' = [ret EXCEPT ![r] = validated_results[Frame(r)]]
    /\ pc' = [pc EXCEPT ![r] = "done"]
    /\ UNCHANGED <<index, store, supabase, req, search_terms, points, verdicts,
                   validated_results, reply, raised, calls>>

\* `if not validated_results:` is true: the Fallback Resolver, then return
ConcBfvFallback(r) ==
    /\ pc[r] = "bfv_ranked"
    /\ validated_results[Frame(r)] = <<>>
    /\ \E ok \in BOOLEAN :
        LET terms == search_terms[Frame(r)]
            found == _supabase_fallback_search(terms, req[r].top_k, ok)
        IN /\ (~FallbackCallsStore(terms) => ok)
           /\ calls' = [calls EXCEPT ![r] =
                            IF FallbackCallsStore(terms)
                            THEN Append(@, RemoteCall("store_query", ok)) ELSE @]
           /\ validated_results' = [validated_results EXCEPT ![Frame(r)] = found]
           /\ ret' = [ret EXCEPT ![r] = found]
    /\ pc' = [pc EXCEPT ![r] = "done"]
    /\ UNCHANGED <<index, store, supabase, req, search_terms, points, verdicts, reply,
                   raised>>

\* search_vehicles_for_battery: query_points, the filtering loop, return
ConcVfbQuery(r) ==
    /\ pc[r] = "query"
    /\ req[r].op = "search_vehicles_for_battery"
    /\ \/ \E answer \in IndexAnswers("battery_to_vehicle",
                                      req[r].top_k * VFB_FETCH_FACTOR) :
            LET loop == VfbLoop(answer, req[r].query, req[r].top_k, <<>>)
            IN /\ calls' = [calls EXCEPT ![r] =
                                Append(@, AnsweredCall("vector_query", answer))]
               /\ points' = [points EXCEPT ![Frame(r)] = answer]
               /\ IF loop.raises
                  THEN /\ ret' = [ret EXCEPT ![r] = ReturnEmptyList.ret]
                       /\ raised' = [raised EXCEPT ![r] = ReturnEmptyList.raised]
                  ELSE /\ ret' = [ret EXCEPT ![r] = loop.formatted]
                       /\ UNCHANGED raised
       \/ /\ calls' = [calls EXCEPT ![r] = Append(@, RemoteCall("vector_query", FALSE))]
          /\ ret' = [ret EXCEPT ![r] = ReturnEmptyList.ret]
          /\ raised' = [raised EXCEPT ![r] = ReturnEmptyList.raised]
          /\ UNCHANGED points
    /\ pc' = [pc EXCEPT ![r] = "done"]
    /\ UNCHANGED <<index, store, supabase, req, search_terms, verdicts,
                   validated_results, reply>>

NextConcurrent ==
    \E r \in Requests :
        \/ ConcStart(r) \/ ConcEmbed(r) \/ ConcBfvQuery(r) \/ ConcBfvReturn(r)
        \/ ConcBfvFallback(r) \/ ConcVfbQuery(r)

SpecConcurrent == InitConcurrent /\ [][NextConcurrent]_vars

\* the outcome of the n-th remote call of a request, if it got that far
CallOk(history, n) == Len(history) >= n /\ history[n].ok

\* what the request returns when it runs alone against the same catalog, with
\* the same outcomes of its own remote calls
SoloResult(request, history) ==
    IF ~CallOk(history, 1) \/ ~CallOk(history, 2) THEN <<>>
    ELSE IF request.op = "search_battery_for_vehicle"
    THEN LET terms == _extract_search_terms(request.query)
             ranked == ValidatedResults(history[2].answer, terms, request.top_k)
         IN IF ranked # <<>> THEN ranked
            ELSE _supabase_fallback_search(terms, request.top_k, CallOk(history, 3))
    ELSE LET loop == VfbLoop(history[2].answer, request.query, request.top_k, <<>>)
         IN IF loop.raises THEN <<>> ELSE loop.formatted

\* C14: whatever the interleaving of the steps of the requests, each request
\* returns exactly what it returns when run alone with the same answers of its
\* own remote calls, and no exception leaves it.
C14_ConcurrentRequestsDoNotInterfere ==
    \A r \in Requests :
        pc[r] = "done" => ret[r] = SoloResult(req[r], calls[r]) /\ ~raised[r]

\* two requests with different queries were in flight together and both
\* returned a non-empty list, one of them from the Fallback Resolver
C14_Witness ==
    /\ pc[1] = "done" /\ pc[2] = "done"
    /\ req[1].query # req[2].query
    /\ Len(calls[1]) = 3
    /\ ret[1] # <<>> /\ ret[2] # <<>>
    /\ ret[1][1].source = "supabase_fallback"
    /\ ret[2][1].source = Absent

====
